---- MODULE Spec2Model ----
(***************************************************************************)
(* NovaFund blockchain indexer: the poll orchestrator (IndexerService),    *)
(* the ledger cursor tracker (LedgerTrackerService) and the handler        *)
(* registry (EventHandlerService), over a persistent store shared by them. *)
(***************************************************************************)
EXTENDS Integers, Sequences, FiniteSets, TLC

(* ------------------------------ bounds -------------------------------- *)
\* highest ledger sequence the remote RPC reports
MaxLedger == 3
\* largest number of events one fetchEvents call returns (all pages together)
MaxBatch == 2
\* number of pollEvents invocations that can be pending at once
NumSlots == 2
MaxEventsPerFetch == 1
\* responses the RPC gives to one fetchEvents call
MaxPages == 6

(* ------------------------- program constants -------------------------- *)
RetryAttempts == 3
RetryDelayMs == 1000
ReorgDepthThreshold == 5

Network == "testnet"
OtherNetwork == "mainnet"
Networks == {Network, OtherNetwork}

(* ------------------------------ values -------------------------------- *)
\* null / undefined of a string-valued field, of a number-valued field
UndefS == "undefined"
UndefN == 0 - 1
\* a stored null lastLedgerHash (read back as undefined)
NoHash == "null"
Hashes == {"H1", "H2"}
\* findUnique found no row
NoCursor == [network |-> "none", lastLedgerSeq |-> UndefN, lastLedgerHash |-> NoHash]
\* parseEventType returned null; parseEvent returned null
Null == "null"
NullEvent == [eventType |-> Null]

Slots == 1..NumSlots
Ledgers == 0..MaxLedger
\* the sequence numbers the RPC reports for its latest ledger
LatestLedgers == 1..MaxLedger
\* the id of the event of a ledger: an event id names the ledger that holds it
EventIdOf(ledger) == ledger

\* enum ContractEventType
ContractEventType ==
    {"proj_new", "proj_fund", "proj_done", "proj_fail", "contrib", "refund",
     "esc_init", "lock", "release", "m_create", "m_submit", "m_apprv",
     "m_reject", "milestone", "v_update", "profit", "claim", "proposal",
     "vote", "execute", "user_reg", "rep_up", "badge", "pay_setup",
     "pay_recv", "pay_withd", "subscr", "sub_cancl", "sub_mod", "sub_pause",
     "sub_resum", "pay_fail", "deposit", "br_init", "chain_add", "chain_rem",
     "wrap", "unwrap", "br_dep", "br_wdraw", "br_pause", "br_res", "rel_add",
     "rel_rem", "tx_conf", "tx_fail", "esc_pause", "esc_resum", "upg_sched",
     "upg_exec", "upg_canc"}

PROJECT_CREATED == "proj_new"
CONTRIBUTION_MADE == "contrib"
MILESTONE_APPROVED == "m_apprv"
FUNDS_RELEASED == "release"
PROJECT_COMPLETED == "proj_done"
PROJECT_FAILED == "proj_fail"

VARIABLES
    \* persistent store
    ledgerCursor,     \* table LedgerCursor: set of rows, unique key network
    processedEvent,   \* table ProcessedEvent: set of rows, unique key eventId
    users,            \* table User: unique key walletAddress
    projects,         \* table Project: unique key contractId
    contributions,    \* table Contribution: unique key transactionHash
    milestones,       \* table Milestone: key (projectId, milestoneId)
    \* IndexerService
    isRunning,
    isShuttingDown,
    initPc,           \* position of onModuleInit / initializeIndexer
    shutPc,           \* position of onModuleDestroy
    inv,              \* the pending pollEvents invocations, one record per slot
    \* observation of the run (written by the actions, read by the properties)
    lastTrigger,      \* what the latest trigger of pollEvents did
    lastCycle,        \* summary of the latest pollEvents invocation that returned
    lastFetch,        \* ledger range of the latest fetch that completed
    trackerOut        \* result of the latest service call made from outside a cycle

store == <<ledgerCursor, processedEvent>>
domain == <<users, projects, contributions, milestones>>
vars == <<ledgerCursor, processedEvent, users, projects, contributions, milestones,
          isRunning, isShuttingDown, initPc, shutPc, inv, lastTrigger, lastCycle,
          lastFetch, trackerOut>>

(* ===================== LedgerTrackerService ========================== *)

\* prisma.ledgerCursor.findUnique({where: {network}}), null hash read as undefined
GetLastCursor(lc) ==
    IF \E r \in lc : r.network = Network
    THEN CHOOSE r \in lc : r.network = Network
    ELSE NoCursor

\* a first cursor that records a hash
InitializeCursorHashed(lc, startLedger) ==
    {r \in lc : r.network # Network}
        \cup {[network |-> Network, lastLedgerSeq |-> startLedger, lastLedgerHash |-> "H1"]}

\* prisma.ledgerCursor.upsert: the row of the network is replaced or created, no hash
InitializeCursor(lc, startLedger) ==
    {r \in lc : r.network # Network}
        \cup {[network |-> Network, lastLedgerSeq |-> startLedger, lastLedgerHash |-> NoHash]}

Min(a, b) == IF a < b THEN a ELSE b
Max(a, b) == IF a > b THEN a ELSE b

\* an update that writes nothing
UpdateCursorNoop(lc, ledgerSeq, ledgerHash) == [ok |-> TRUE, lc |-> lc]

\* an update that creates the row when the network has none
UpdateCursorUpsert(lc, ledgerSeq, ledgerHash) ==
    [ok |-> TRUE,
     lc |-> {r \in lc : r.network # Network}
              \cup {[network |-> Network, lastLedgerSeq |-> ledgerSeq,
                     lastLedgerHash |-> IF ledgerHash \in {UndefS, ""}
                                        THEN NoHash ELSE ledgerHash]}]

\* prisma.ledgerCursor.update: fails when the network has no row (ok = FALSE);
\* ledgerHash || null
UpdateCursor(lc, ledgerSeq, ledgerHash) ==
    IF \E r \in lc : r.network = Network
    THEN [ok |-> TRUE,
          lc |-> {r \in lc : r.network # Network}
                   \cup {[network |-> Network, lastLedgerSeq |-> ledgerSeq,
                          lastLedgerHash |-> IF ledgerHash \in {UndefS, ""}
                                             THEN NoHash ELSE ledgerHash]}]
    ELSE [ok |-> FALSE, lc |-> lc]

\* a detection that ignores whether the cursor holds a hash
DetectReorgNoHashTest(lc, currentLedger) ==
    LET cursor == GetLastCursor(lc) IN
    IF cursor = NoCursor
    THEN [hasReorg |-> FALSE, reorgDepth |-> 0,
          lastValidLedger |-> currentLedger.sequence - 1,
          newLatestLedger |-> currentLedger.sequence]
    ELSE IF currentLedger.sequence = cursor.lastLedgerSeq
    THEN LET hasReorg == currentLedger.hash # cursor.lastLedgerHash IN
         [hasReorg |-> hasReorg,
          reorgDepth |-> IF hasReorg THEN 1 ELSE 0,
          lastValidLedger |-> IF hasReorg THEN currentLedger.sequence - 1
                              ELSE currentLedger.sequence,
          newLatestLedger |-> currentLedger.sequence]
    ELSE [hasReorg |-> currentLedger.sequence < cursor.lastLedgerSeq,
          reorgDepth |-> IF currentLedger.sequence < cursor.lastLedgerSeq
                         THEN cursor.lastLedgerSeq - currentLedger.sequence ELSE 0,
          lastValidLedger |-> IF currentLedger.sequence < cursor.lastLedgerSeq
                              THEN currentLedger.sequence ELSE cursor.lastLedgerSeq,
          newLatestLedger |-> currentLedger.sequence]

\* a detection that reports depth 1 for every reorg
DetectReorgDepthOne(lc, currentLedger) ==
    LET cursor == GetLastCursor(lc) IN
    IF cursor = NoCursor \/ cursor.lastLedgerHash \in {NoHash, ""}
    THEN [hasReorg |-> FALSE, reorgDepth |-> 0,
          lastValidLedger |-> currentLedger.sequence - 1,
          newLatestLedger |-> currentLedger.sequence]
    ELSE LET hasReorg == \/ currentLedger.sequence < cursor.lastLedgerSeq
                         \/ /\ currentLedger.sequence = cursor.lastLedgerSeq
                            /\ currentLedger.hash # cursor.lastLedgerHash
         IN [hasReorg |-> hasReorg,
             reorgDepth |-> IF hasReorg THEN 1 ELSE 0,
             lastValidLedger |-> IF hasReorg THEN currentLedger.sequence - 1
                                 ELSE Min(currentLedger.sequence, cursor.lastLedgerSeq),
             newLatestLedger |-> currentLedger.sequence]

\* detectReorg(currentLedger), currentLedger = [sequence, hash]
DetectReorg(lc, currentLedger) ==
    LET cursor == GetLastCursor(lc) IN
    IF cursor = NoCursor \/ cursor.lastLedgerHash \in {NoHash, ""}
    THEN [hasReorg |-> FALSE, reorgDepth |-> 0,
          lastValidLedger |-> currentLedger.sequence - 1,
          newLatestLedger |-> currentLedger.sequence]
    ELSE IF currentLedger.sequence = cursor.lastLedgerSeq
    THEN LET hasReorg == currentLedger.hash # cursor.lastLedgerHash IN
         [hasReorg |-> hasReorg,
          reorgDepth |-> IF hasReorg THEN 1 ELSE 0,
          lastValidLedger |-> IF hasReorg THEN currentLedger.sequence - 1
                              ELSE currentLedger.sequence,
          newLatestLedger |-> currentLedger.sequence]
    ELSE IF currentLedger.sequence > cursor.lastLedgerSeq
    THEN [hasReorg |-> FALSE, reorgDepth |-> 0,
          lastValidLedger |-> cursor.lastLedgerSeq,
          newLatestLedger |-> currentLedger.sequence]
    ELSE [hasReorg |-> TRUE,
          reorgDepth |-> cursor.lastLedgerSeq - currentLedger.sequence,
          lastValidLedger |-> currentLedger.sequence,
          newLatestLedger |-> currentLedger.sequence]

\* handleReorg(reorgResult): [ok, ret, lc, pe]; the purge precedes the cursor
\* update, which fails when the network has no cursor row
\* a rollback without the safety buffer of two ledgers
HandleReorgNoBuffer(lc, pe, reorgResult) ==
    IF ~reorgResult.hasReorg
    THEN [ok |-> TRUE, ret |-> reorgResult.newLatestLedger, lc |-> lc, pe |-> pe]
    ELSE LET rollbackDepth == Min(reorgResult.reorgDepth, ReorgDepthThreshold)
             safeLedgerSeq == Max(0, reorgResult.lastValidLedger - rollbackDepth)
             purged == {r \in pe : ~(r.network = Network /\ r.ledgerSeq > safeLedgerSeq)}
             upd == UpdateCursor(lc, safeLedgerSeq, UndefS)
         IN [ok |-> upd.ok, ret |-> safeLedgerSeq, lc |-> upd.lc, pe |-> purged]

\* a purge that does not look at the network of a row
HandleReorgAnyNetwork(lc, pe, reorgResult) ==
    IF ~reorgResult.hasReorg
    THEN [ok |-> TRUE, ret |-> reorgResult.newLatestLedger, lc |-> lc, pe |-> pe]
    ELSE LET rollbackDepth == Min(reorgResult.reorgDepth + 2, ReorgDepthThreshold)
             safeLedgerSeq == Max(0, reorgResult.lastValidLedger - rollbackDepth)
             purged == {r \in pe : ~(r.ledgerSeq > safeLedgerSeq)}
             upd == UpdateCursor(lc, safeLedgerSeq, UndefS)
         IN [ok |-> upd.ok, ret |-> safeLedgerSeq, lc |-> upd.lc, pe |-> purged]

\* a rollback target that is not held at ledger 0
SafeLedgerSeqUnclamped(reorgResult, reorgDepthThreshold) ==
    reorgResult.lastValidLedger - Min(reorgResult.reorgDepth + 2, reorgDepthThreshold)

\* handleReorg line 171-177: rollbackDepth and safeLedgerSeq
SafeLedgerSeq(reorgResult, reorgDepthThreshold) ==
    LET rollbackDepth == Min(reorgResult.reorgDepth + 2, reorgDepthThreshold)
    IN Max(0, reorgResult.lastValidLedger - rollbackDepth)

HandleReorg(lc, pe, reorgResult) ==
    IF ~reorgResult.hasReorg
    THEN [ok |-> TRUE, ret |-> reorgResult.newLatestLedger, lc |-> lc, pe |-> pe]
    ELSE LET safeLedgerSeq == SafeLedgerSeq(reorgResult, ReorgDepthThreshold)
             purged == {r \in pe : ~(r.network = Network /\ r.ledgerSeq > safeLedgerSeq)}
             upd == UpdateCursor(lc, safeLedgerSeq, UndefS)
         IN [ok |-> upd.ok, ret |-> safeLedgerSeq, lc |-> upd.lc, pe |-> purged]

\* a dedup check that finds nothing
IsEventProcessedNever(pe, eventId) == FALSE

\* prisma.processedEvent.count({where: {eventId, network}}) > 0
IsEventProcessed(pe, eventId) ==
    Cardinality({r \in pe : r.eventId = eventId /\ r.network = Network}) > 0

\* an upsert whose update branch rewrites the row
MarkEventProcessedOverwrite(pe, eventId, ledgerSeq, contractId, eventType, transactionHash) ==
    {r \in pe : r.eventId # eventId}
        \cup {[eventId |-> eventId, network |-> Network, ledgerSeq |-> ledgerSeq,
               contractId |-> contractId, eventType |-> eventType,
               transactionHash |-> transactionHash]}

\* prisma.processedEvent.upsert({where: {eventId}, update: {}, create: {...}})
MarkEventProcessed(pe, eventId, ledgerSeq, contractId, eventType, transactionHash) ==
    IF \E r \in pe : r.eventId = eventId
    THEN pe
    ELSE pe \cup {[eventId |-> eventId, network |-> Network, ledgerSeq |-> ledgerSeq,
                   contractId |-> contractId, eventType |-> eventType,
                   transactionHash |-> transactionHash]}

\* a getStartLedger that looks at the configured start before the cursor
GetStartLedgerConfiguredFirst(lc, latestLedger, configuredStart) ==
    LET cursor == GetLastCursor(lc) IN
    IF configuredStart \notin {UndefN, 0}
    THEN [ret |-> configuredStart, lc |-> InitializeCursor(lc, configuredStart - 1)]
    ELSE IF cursor # NoCursor
    THEN [ret |-> cursor.lastLedgerSeq + 1, lc |-> lc]
    ELSE [ret |-> latestLedger, lc |-> InitializeCursor(lc, latestLedger - 1)]

\* a getStartLedger that creates the cursor at the start ledger itself
GetStartLedgerAtStart(lc, latestLedger, configuredStart) ==
    LET cursor == GetLastCursor(lc) IN
    IF cursor # NoCursor
    THEN [ret |-> cursor.lastLedgerSeq + 1, lc |-> lc]
    ELSE IF configuredStart \notin {UndefN, 0}
    THEN [ret |-> configuredStart, lc |-> InitializeCursor(lc, configuredStart)]
    ELSE [ret |-> latestLedger, lc |-> InitializeCursor(lc, latestLedger)]

\* getStartLedger(latestLedger) with INDEXER_START_LEDGER = configuredStart
\* (UndefN when not configured; 0 is falsy): [ret, lc]
GetStartLedger(lc, latestLedger, configuredStart) ==
    LET cursor == GetLastCursor(lc) IN
    IF cursor # NoCursor
    THEN [ret |-> cursor.lastLedgerSeq + 1, lc |-> lc]
    ELSE IF configuredStart \notin {UndefN, 0}
    THEN [ret |-> configuredStart, lc |-> InitializeCursor(lc, configuredStart - 1)]
    ELSE [ret |-> latestLedger, lc |-> InitializeCursor(lc, latestLedger - 1)]

(* ========================= event decoder ============================== *)

\* a string holding an amount is modelled by the amount; the other strings by:
NaS == 0 - 2     \* a non-empty string that is not a number (BigInt throws)
EmptyS == 0 - 3  \* the empty string (falsy; BigInt("") is 0)

TruthyS(s) == s \notin {UndefS, ""}
TruthyN(n) == n \notin {UndefN, 0}
TruthyA(a) == a \notin {UndefN, EmptyS}
BigIntOk(a) == a \notin {UndefN, NaS}
BigInt(a) == IF a = EmptyS THEN 0 ELSE a

\* the fields the handlers read from event.data, all absent
NoData ==
    [projectId |-> UndefN, creator |-> UndefS, fundingGoal |-> UndefN,
     deadline |-> UndefN, token |-> UndefS, contributor |-> UndefS,
     amount |-> UndefN, totalRaised |-> UndefN, milestoneId |-> UndefN,
     rawXdr |-> UndefS, eventType |-> UndefS]

\* transformRpcEvent: txHash || transactionHash || ''
TransformRpcEvent(event) ==
    [id |-> event.id, ledger |-> event.ledger, ledgerClosedAt |-> event.ledgerClosedAt,
     contractId |-> event.contractId, topic |-> event.topic, value |-> event.value,
     txHash |-> IF TruthyS(event.txHash) THEN event.txHash
                ELSE IF TruthyS(event.transactionHash) THEN event.transactionHash
                ELSE ""]

\* parseEventType: the enum member equal to the symbol, else null
ParseEventType(symbol) ==
    IF symbol \in ContractEventType THEN symbol ELSE Null

\* a decoder that extracts the fields of a contribution to project 1
ParseEventDataDecoded(valueXdr, eventType) ==
    [NoData EXCEPT !.rawXdr = valueXdr, !.eventType = eventType, !.projectId = 1,
                   !.contributor = "GB", !.amount = 5, !.totalRaised = 5]

\* parseEventData: { rawXdr, eventType } and no other field
ParseEventData(valueXdr, eventType) ==
    [NoData EXCEPT !.rawXdr = valueXdr, !.eventType = eventType]

\* parseEvent: null when topic[0] is missing or empty or no known type
ParseEvent(event) ==
    IF Len(event.topic) = 0 \/ ~TruthyS(event.topic[1])
    THEN NullEvent
    ELSE LET eventType == ParseEventType(event.topic[1]) IN
         IF eventType = Null
         THEN NullEvent
         ELSE [eventId |-> event.id, ledgerSeq |-> event.ledger,
               ledgerClosedAt |-> event.ledgerClosedAt,
               contractId |-> event.contractId, eventType |-> eventType,
               transactionHash |-> event.txHash,
               data |-> ParseEventData(event.value, eventType)]

(* ======================= EventHandlerService ========================== *)

\* the domain tables as one value
Dom(u, p, c, m) == [users |-> u, projects |-> p, contributions |-> c, milestones |-> m]

\* prisma.user.upsert({where: {walletAddress}, update: {}, create: {.., reputationScore: 0}})
UpsertUser(u, walletAddress) ==
    IF \E r \in u : r.walletAddress = walletAddress
    THEN u
    ELSE u \cup {[walletAddress |-> walletAddress, reputationScore |-> 0]}

HasProject(p, contractId) == \E r \in p : r.contractId = contractId

ProjectCreatedValidate(event) ==
    LET data == event.data IN
    /\ data.projectId # UndefN
    /\ TruthyS(data.creator)
    /\ TruthyA(data.fundingGoal)
    /\ TruthyN(data.deadline)
    /\ TruthyS(data.token)

\* handle: [ok, dom]; ok = FALSE when it throws, dom holds what was written before
ProjectCreatedHandle(D, event) ==
    LET data == event.data
        u1 == UpsertUser(D.users, data.creator)
        D1 == [D EXCEPT !.users = u1]
    IN IF ~BigIntOk(data.fundingGoal)
       THEN [ok |-> FALSE, dom |-> D1]
       ELSE [ok |-> TRUE,
             dom |-> [D1 EXCEPT !.projects =
                 IF HasProject(D.projects, data.projectId)
                 THEN {IF r.contractId = data.projectId
                       THEN [r EXCEPT !.goal = BigInt(data.fundingGoal),
                                      !.deadline = data.deadline,
                                      !.status = "ACTIVE"]
                       ELSE r : r \in D.projects}
                 ELSE D.projects \cup
                      {[contractId |-> data.projectId, creatorId |-> data.creator,
                        goal |-> BigInt(data.fundingGoal), deadline |-> data.deadline,
                        status |-> "ACTIVE", currentFunds |-> 0]}]]

\* a handler that adds the amount of the contribution to the funds of the project
ContributionMadeHandleAddsFunds(D, event) ==
    LET data == event.data
        D1 == [D EXCEPT !.users = UpsertUser(D.users, data.contributor)]
    IN IF ~HasProject(D.projects, data.projectId)
       THEN [ok |-> TRUE, dom |-> D1]
       ELSE IF ~BigIntOk(data.amount)
       THEN [ok |-> FALSE, dom |-> D1]
       ELSE [ok |-> TRUE,
             dom |-> [D1 EXCEPT
                 !.contributions =
                     IF \E r \in @ : r.transactionHash = event.transactionHash
                     THEN @
                     ELSE @ \cup {[transactionHash |-> event.transactionHash,
                                   investorId |-> data.contributor,
                                   projectId |-> data.projectId,
                                   amount |-> BigInt(data.amount),
                                   timestamp |-> event.ledgerClosedAt]},
                 !.projects =
                     {IF r.contractId = data.projectId
                      THEN [r EXCEPT !.currentFunds = @ + BigInt(data.amount)]
                      ELSE r : r \in D.projects}]]

\* a handler that records the contribution without looking for the project
ContributionMadeHandleNoProjectTest(D, event) ==
    [ok |-> TRUE,
     dom |-> [D EXCEPT !.contributions =
         @ \cup {[transactionHash |-> event.transactionHash,
                  investorId |-> event.data.contributor,
                  projectId |-> event.data.projectId,
                  amount |-> BigInt(event.data.amount),
                  timestamp |-> event.ledgerClosedAt]}]]

\* a handler for which a missing project is an error
ContributionMadeHandleMissThrows(D, event) ==
    LET data == event.data
        u1 == UpsertUser(D.users, data.contributor)
        D1 == [D EXCEPT !.users = u1]
        c1 == IF \E r \in D.contributions : r.transactionHash = event.transactionHash
              THEN D.contributions
              ELSE D.contributions \cup
                   {[transactionHash |-> event.transactionHash,
                     investorId |-> data.contributor, projectId |-> data.projectId,
                     amount |-> BigInt(data.amount), timestamp |-> event.ledgerClosedAt]}
        D2 == [D1 EXCEPT !.contributions = c1]
    IN IF ~HasProject(D.projects, data.projectId)
       THEN [ok |-> FALSE, dom |-> D1]
       ELSE IF ~BigIntOk(data.amount)
       THEN [ok |-> FALSE, dom |-> D1]
       ELSE IF ~BigIntOk(data.totalRaised)
       THEN [ok |-> FALSE, dom |-> D2]
       ELSE [ok |-> TRUE,
             dom |-> [D2 EXCEPT !.projects =
                 {IF r.contractId = data.projectId
                  THEN [r EXCEPT !.currentFunds = BigInt(data.totalRaised)]
                  ELSE r : r \in D.projects}]]

ContributionMadeValidate(event) ==
    LET data == event.data IN
    /\ data.projectId # UndefN
    /\ TruthyS(data.contributor)
    /\ TruthyA(data.amount)

ContributionMadeHandle(D, event) ==
    LET data == event.data
        u1 == UpsertUser(D.users, data.contributor)
        D1 == [D EXCEPT !.users = u1]
        c1 == IF \E r \in D.contributions : r.transactionHash = event.transactionHash
              THEN D.contributions
              ELSE D.contributions \cup
                   {[transactionHash |-> event.transactionHash,
                     investorId |-> data.contributor, projectId |-> data.projectId,
                     amount |-> BigInt(data.amount), timestamp |-> event.ledgerClosedAt]}
        D2 == [D1 EXCEPT !.contributions = c1]
    IN IF ~HasProject(D.projects, data.projectId)
       THEN [ok |-> TRUE, dom |-> D1]
       ELSE IF ~BigIntOk(data.amount)
       THEN [ok |-> FALSE, dom |-> D1]
       ELSE IF ~BigIntOk(data.totalRaised)
       THEN [ok |-> FALSE, dom |-> D2]
       ELSE [ok |-> TRUE,
             dom |-> [D2 EXCEPT !.projects =
                 {IF r.contractId = data.projectId
                  THEN [r EXCEPT !.currentFunds = BigInt(data.totalRaised)]
                  ELSE r : r \in D.projects}]]

MilestoneApprovedValidate(event) ==
    event.data.projectId # UndefN /\ event.data.milestoneId # UndefN

\* prisma.milestone.updateMany({where: {projectId}, data: {status: 'APPROVED'}})
MilestoneApprovedHandle(D, event) ==
    IF ~HasProject(D.projects, event.data.projectId)
    THEN [ok |-> TRUE, dom |-> D]
    ELSE [ok |-> TRUE,
          dom |-> [D EXCEPT !.milestones =
              {IF r.projectId = event.data.projectId
               THEN [r EXCEPT !.status = "APPROVED"]
               ELSE r : r \in D.milestones}]]

FundsReleasedValidate(event) ==
    event.data.projectId # UndefN /\ TruthyA(event.data.amount)

\* prisma.milestone.updateMany({where: {projectId}, data: {status: 'FUNDED', completionDate}})
FundsReleasedHandle(D, event) ==
    IF ~HasProject(D.projects, event.data.projectId)
    THEN [ok |-> TRUE, dom |-> D]
    ELSE [ok |-> TRUE,
          dom |-> [D EXCEPT !.milestones =
              {IF r.projectId = event.data.projectId
               THEN [r EXCEPT !.status = "FUNDED",
                              !.completionDate = event.ledgerClosedAt]
               ELSE r : r \in D.milestones}]]

ProjectStatusValidate(event) == event.data.projectId # UndefN

\* prisma.project.updateMany({where: {contractId}, data: {status}})
ProjectStatusHandle(D, event, status) ==
    [ok |-> TRUE,
     dom |-> [D EXCEPT !.projects =
         {IF r.contractId = event.data.projectId
          THEN [r EXCEPT !.status = status]
          ELSE r : r \in D.projects}]]

\* registerHandlers: the event types that have a handler
HandlerTypes ==
    {PROJECT_CREATED, CONTRIBUTION_MADE, MILESTONE_APPROVED, FUNDS_RELEASED,
     PROJECT_COMPLETED, PROJECT_FAILED}

IsSupported(eventType) == eventType \in HandlerTypes

Validate(eventType, event) ==
    CASE eventType = PROJECT_CREATED -> ProjectCreatedValidate(event)
      [] eventType = CONTRIBUTION_MADE -> ContributionMadeValidate(event)
      [] eventType = MILESTONE_APPROVED -> MilestoneApprovedValidate(event)
      [] eventType = FUNDS_RELEASED -> FundsReleasedValidate(event)
      [] OTHER -> ProjectStatusValidate(event)

Handle(eventType, D, event) ==
    CASE eventType = PROJECT_CREATED -> ProjectCreatedHandle(D, event)
      [] eventType = CONTRIBUTION_MADE -> ContributionMadeHandle(D, event)
      [] eventType = MILESTONE_APPROVED -> MilestoneApprovedHandle(D, event)
      [] eventType = FUNDS_RELEASED -> FundsReleasedHandle(D, event)
      [] eventType = PROJECT_COMPLETED -> ProjectStatusHandle(D, event, "COMPLETED")
      [] OTHER -> ProjectStatusHandle(D, event, "CANCELLED")

\* a processEvent that logs the failure of handle and returns false
HandlerProcessEventSwallow(D, event) ==
    IF ~IsSupported(event.eventType)
    THEN [threw |-> FALSE, ret |-> FALSE, dom |-> D,
          validated |-> FALSE, handled |-> FALSE]
    ELSE IF ~Validate(event.eventType, event)
    THEN [threw |-> FALSE, ret |-> FALSE, dom |-> D,
          validated |-> TRUE, handled |-> FALSE]
    ELSE LET h == Handle(event.eventType, D, event) IN
         [threw |-> FALSE, ret |-> h.ok, dom |-> h.dom,
          validated |-> TRUE, handled |-> TRUE]

\* a processEvent that hands the event to handle whatever validate says
HandlerProcessEventNoValidate(D, event) ==
    IF ~IsSupported(event.eventType)
    THEN [threw |-> FALSE, ret |-> FALSE, dom |-> D,
          validated |-> FALSE, handled |-> FALSE]
    ELSE LET h == Handle(event.eventType, D, event) IN
         [threw |-> ~h.ok, ret |-> h.ok, dom |-> h.dom,
          validated |-> TRUE, handled |-> TRUE]

\* EventHandlerService.processEvent: [threw, ret, dom, validated, handled];
\* validated / handled tell whether validate / handle were invoked
HandlerProcessEvent(D, event) ==
    IF ~IsSupported(event.eventType)
    THEN [threw |-> FALSE, ret |-> FALSE, dom |-> D,
          validated |-> FALSE, handled |-> FALSE]
    ELSE IF ~Validate(event.eventType, event)
    THEN [threw |-> FALSE, ret |-> FALSE, dom |-> D,
          validated |-> TRUE, handled |-> FALSE]
    ELSE LET h == Handle(event.eventType, D, event) IN
         [threw |-> ~h.ok, ret |-> h.ok, dom |-> h.dom,
          validated |-> TRUE, handled |-> TRUE]

(* ================= IndexerService.processEvent ======================== *)

\* a processEvent that marks every decoded event, applied or not
ProcessEventMarkAlways(pe, D, event) ==
    IF IsEventProcessed(pe, event.id)
    THEN [threw |-> FALSE, ret |-> FALSE, pe |-> pe, dom |-> D,
          decoded |-> FALSE, validated |-> FALSE, handled |-> FALSE]
    ELSE LET parsedEvent == ParseEvent(event) IN
         IF parsedEvent = NullEvent
         THEN [threw |-> FALSE, ret |-> FALSE, pe |-> pe, dom |-> D,
               decoded |-> TRUE, validated |-> FALSE, handled |-> FALSE]
         ELSE LET r == HandlerProcessEvent(D, parsedEvent) IN
              [threw |-> r.threw, ret |-> r.ret,
               pe |-> MarkEventProcessed(pe, event.id, event.ledger,
                          event.contractId, parsedEvent.eventType, event.txHash),
               dom |-> r.dom,
               decoded |-> TRUE, validated |-> r.validated, handled |-> r.handled]

\* processEvent line 338-358, once parseEvent has returned parsedEvent: the
\* dispatch to the registry, and the dedup row when it returned true
DispatchParsed(pe, D, event, parsedEvent) ==
    IF parsedEvent = NullEvent
    THEN [threw |-> FALSE, ret |-> FALSE, pe |-> pe, dom |-> D,
          decoded |-> TRUE, validated |-> FALSE, handled |-> FALSE]
    ELSE LET r == HandlerProcessEvent(D, parsedEvent) IN
         [threw |-> r.threw, ret |-> r.ret,
          pe |-> IF ~r.threw /\ r.ret
                 THEN MarkEventProcessed(pe, event.id, event.ledger,
                          event.contractId, parsedEvent.eventType, event.txHash)
                 ELSE pe,
          dom |-> r.dom,
          decoded |-> TRUE, validated |-> r.validated, handled |-> r.handled]

\* processEvent(event): [threw, ret, pe, dom, decoded, validated, handled];
\* decoded tells whether parseEvent was invoked
ProcessEvent(pe, D, event) ==
    IF IsEventProcessed(pe, event.id)
    THEN [threw |-> FALSE, ret |-> FALSE, pe |-> pe, dom |-> D,
          decoded |-> FALSE, validated |-> FALSE, handled |-> FALSE]
    ELSE DispatchParsed(pe, D, event, ParseEvent(event))

\* processEvent(event) with a parseEventData that extracts the data fields of
\* the event (the fields the handlers validate and read)
ProcessEventDecoded(pe, D, event, data) ==
    IF IsEventProcessed(pe, event.id)
    THEN [threw |-> FALSE, ret |-> FALSE, pe |-> pe, dom |-> D,
          decoded |-> FALSE, validated |-> FALSE, handled |-> FALSE]
    ELSE LET parsedEvent == ParseEvent(event) IN
         DispatchParsed(pe, D, event,
             IF parsedEvent = NullEvent THEN NullEvent
             ELSE [parsedEvent EXCEPT
                      !.data = [data EXCEPT !.rawXdr = event.value,
                                            !.eventType = parsedEvent.eventType]])

(* ======================== remote ledger RPC =========================== *)

\* topic sequences of the events the RPC returns: two types with a handler,
\* one enum member without handler, an unknown symbol, an empty topic
PipelineTopics == {<<"contrib">>, <<"proj_done">>, <<"vote">>, <<"bogus">>, <<>>}

\* the topics of the events the poll cycles fetch: a type with a handler, a
\* type without one, and a symbol outside the enum
CycleTopics == {<<"contrib">>, <<"vote">>, <<"bogus">>}

\* the events getEvents can return for ledgers >= startLedger (wire shape)
RpcEvents(startLedger, topics) ==
    {[id |-> EventIdOf(l), ledger |-> l, ledgerClosedAt |-> l, contractId |-> "C1",
      topic |-> t, value |-> "xdr", txHash |-> UndefS, transactionHash |-> "tx1"] :
        l \in {n \in 1..MaxLedger : n >= startLedger}, t \in topics}

\* the responses of one fetchEvents(startLedger, endLedger) call, all pages
\* concatenated: events from startLedger on, in ledger order (endLedger is not
\* part of the request)
RpcBatches(startLedger) ==
    UNION {{b \in [1..n -> RpcEvents(startLedger, CycleTopics)] :
                \A k \in 1..(n - 1) :
                    b[k].ledger < b[k + 1].ledger \/ b[k] = b[k + 1]} : n \in 0..MaxBatch}

\* line 296-299: events.length >= this.maxEventsPerFetch * 5
FetchLimit == MaxEventsPerFetch * 5

\* a safety check that lets one more page through
FetchLimitReachedLate(n) == n > FetchLimit

FetchLimitReached(n) == n >= FetchLimit

\* a response that fills the fetch up to its limit: FetchLimit events of
\* ledger startLedger, each with an id of its own
FullBatches(startLedger) ==
    {[k \in 1..FetchLimit |->
        [id |-> EventIdOf(startLedger) * 10 * FetchLimit + k, ledger |-> startLedger,
         ledgerClosedAt |-> startLedger, contractId |-> "C1",
         topic |-> <<"contrib">>, value |-> "xdr", txHash |-> UndefS,
         transactionHash |-> "tx1"]]}

\* the k-th event of the page-th response of getEvents (wire shape)
PageEvent(page, k) ==
    [id |-> page * 10 * FetchLimit + k, ledger |-> 1, ledgerClosedAt |-> 1,
     contractId |-> "C1", topic |-> <<"contrib">>, value |-> "xdr",
     txHash |-> UndefS, transactionHash |-> "tx1"]

\* the page-th response: no events field, an empty page or a page as long as
\* the request's limit allows; with or without a continuation cursor
Responses(page) ==
    {[hasEvents |-> n >= 0,
      events |-> [k \in 1..n |-> PageEvent(page, k)],
      cursor |-> c] : n \in {0 - 1, 0, MaxEventsPerFetch}, c \in {UndefS, "p1"}}

\* fetchEvents line 280-305, from its n-th request on, with the events
\* accumulated so far: [returned, events, requests]; returned is FALSE when the
\* call still awaits a response after the last one of the sequence
RECURSIVE FetchEventsFrom(_, _, _)
FetchEventsFrom(responses, n, events) ==
    IF n > Len(responses)
    THEN [returned |-> FALSE, events |-> events, requests |-> n - 1]
    ELSE LET response == responses[n]
             pushed == IF response.hasEvents
                       THEN events \o [k \in 1..Len(response.events) |->
                                           TransformRpcEvent(response.events[k])]
                       ELSE events
             cursor == response.cursor
         IN IF FetchLimitReached(Len(pushed))
            THEN [returned |-> TRUE, events |-> pushed, requests |-> n]
            ELSE IF TruthyS(cursor)
            THEN FetchEventsFrom(responses, n + 1, pushed)
            ELSE [returned |-> TRUE, events |-> pushed, requests |-> n]

\* fetchEvents: const events = [], let cursor, then the do/while
FetchEvents(responses) == FetchEventsFrom(responses, 1, <<>>)

(* ==================== IndexerService: poll cycle ====================== *)

\* what the catch of pollEvents receives: nothing yet, the Error thrown by
\* fetchEventsWithRetry (its message names the number of attempts and the
\* message of lastError), or the rejection of another awaited call
NoError == [kind |-> "none", attempts |-> 0, cause |-> 0]
OtherError == [kind |-> "other", attempts |-> 0, cause |-> 0]

\* the Error the attempt-th call of fetchEvents rejects with; every call fails
\* with a message of its own
RpcFailure(attempt) == attempt

\* line 247-249: new Error(`Failed to fetch events after ${retryAttempts}
\* attempts: ${lastError?.message}`)
FetchFailedError(lastError) ==
    [kind |-> "fetch", attempts |-> RetryAttempts, cause |-> lastError]

\* a retry loop that goes round once more
RetryAgainOnceMore(attempt) == attempt <= RetryAttempts

\* line 229 and 239: another attempt follows the failure of this one
RetryAgain(attempt) == attempt < RetryAttempts

\* a backoff that does not grow
BackoffDelayFixed(attempt) == RetryDelayMs

IdleInv ==
    [pc |-> "idle", caller |-> "none", start |-> UndefN, latest |-> UndefN,
     cursor0 |-> UndefN, attempt |-> 0, delays |-> <<>>, lastError |-> 0,
     error |-> NoError, fetched |-> FALSE, truncated |-> FALSE, token |-> UndefS,
     events |-> <<>>, idx |-> 0, dispatched |-> 0, processedCount |-> 0,
     errorCount |-> 0, logs |-> <<>>]

NoCycle ==
    [outcome |-> "none", caller |-> "none", start |-> UndefN, end |-> UndefN,
     cursorBefore |-> UndefN, cursorAfter |-> UndefN, fetched |-> FALSE,
     nEvents |-> 0, dispatched |-> 0, processedCount |-> 0, errorCount |-> 0,
     delays |-> <<>>, attempts |-> 0, error |-> NoError, logs |-> <<>>,
     rejected |-> FALSE, truncated |-> FALSE]

Active(s) == inv[s].pc # "idle"

\* a guard that lets every trigger through
SkipPollNever(running) == FALSE

\* pollEvents line 147: if (this.isRunning) return
SkipPoll(running) == running

\* a start at the cursor itself
StartLedgerAtCursor(cursor) ==
    IF cursor # NoCursor THEN cursor.lastLedgerSeq ELSE 1

\* pollEvents line 157: cursor ? cursor.lastLedgerSeq + 1 : 1
StartLedger(cursor) ==
    IF cursor # NoCursor THEN cursor.lastLedgerSeq + 1 ELSE 1

\* a terminal fetch failure taken for an empty batch
FetchFailureSwallowed == "updateEmpty"

\* fetchEventsWithRetry line 249: throw lastError, caught at line 213
AfterFetchFailure == "catch"

\* a no-op test that never holds
NothingToProcessNever(startLedger, latestLedger) == FALSE

\* pollEvents line 163: if (startLedger > latestLedger) return
NothingToProcess(startLedger, latestLedger) == startLedger > latestLedger

\* 2^n
RECURSIVE Pow2(_)
Pow2(n) == IF n = 0 THEN 1 ELSE 2 * Pow2(n - 1)

\* fetchEventsWithRetry line 240
BackoffDelay(attempt) == RetryDelayMs * Pow2(attempt - 1)

\* the finally block of pollEvents, and the return to the caller; lc is the
\* cursor table and i the invocation record as the invocation leaves them
Finish(s, i, lc, outcome, rejected) ==
    /\ isRunning' = FALSE
    /\ inv' = [inv EXCEPT ![s] = IdleInv]
    /\ lastCycle' =
         [outcome |-> outcome, caller |-> i.caller, start |-> i.start,
          end |-> i.latest, cursorBefore |-> i.cursor0,
          cursorAfter |-> GetLastCursor(lc).lastLedgerSeq, fetched |-> i.fetched,
          nEvents |-> Len(i.events), dispatched |-> i.dispatched,
          processedCount |-> i.processedCount, errorCount |-> i.errorCount,
          delays |-> i.delays, attempts |-> i.attempt, error |-> i.error,
          logs |-> i.logs, rejected |-> rejected, truncated |-> i.truncated]
    /\ initPc' = IF i.caller = "init"
                 THEN (IF rejected THEN "failed" ELSE "done")
                 ELSE initPc
    /\ lastTrigger' = "none"

\* pollEvents up to its first await: the single-flight guard, isRunning = true
PollEnter(s, caller) ==
    /\ ~Active(s)
    /\ \A t \in Slots : t < s => Active(t)
    /\ ~SkipPoll(isRunning)
    /\ isRunning' = TRUE
    /\ inv' = [inv EXCEPT ![s] = [IdleInv EXCEPT !.pc = "cursor", !.caller = caller]]
    /\ lastTrigger' = "none"

\* INDEXER_START_LEDGER: not set (UndefN) or the sequence of a ledger; ledger
\* sequences start at 1
ConfiguredStarts == {UndefN} \cup LatestLedgers

\* the observation of getStartLedger is dropped once the first cycle has
\* resolved its start ledger
AfterStart(s) ==
    IF inv[s].caller = "init" THEN [op |-> "none"] ELSE trackerOut

\* a startup that goes on to the eager poll after a failed RPC call
InitFailureIgnored == "poll"

\* initializeIndexer line 128-131: the catch logs and rethrows, and onModuleInit
\* rejects
AfterInitFailure == "failed"

\* initializeIndexer: getHealth, getLatestLedger, getStartLedger, then the eager
\* pollEvents; a failing RPC call aborts startup
InitializeIndexer ==
    /\ initPc = "start"
    /\ \/ /\ initPc' = AfterInitFailure
          /\ trackerOut' = [op |-> "initFailure"]
          /\ UNCHANGED <<store, domain, isRunning, isShuttingDown, shutPc, inv,
                         lastTrigger, lastCycle, lastFetch>>
       \/ \E latestLedger \in LatestLedgers, configuredStart \in ConfiguredStarts :
            LET r == GetStartLedger(ledgerCursor, latestLedger, configuredStart) IN
            /\ ledgerCursor' = r.lc
            /\ trackerOut' = [op |-> "getStartLedger", latestLedger |-> latestLedger,
                              configuredStart |-> configuredStart,
                              hadCursor |-> GetLastCursor(ledgerCursor) # NoCursor,
                              ret |-> r.ret]
            /\ initPc' = "poll"
            /\ UNCHANGED <<processedEvent, domain, isRunning, isShuttingDown, shutPc,
                           inv, lastTrigger, lastCycle, lastFetch>>

\* initializeIndexer line 127: await this.pollEvents()
InitialPoll(s) ==
    /\ initPc = "poll"
    /\ \A t \in Slots : inv[t].caller # "init"
    /\ PollEnter(s, "init")
    /\ UNCHANGED <<store, domain, isShuttingDown, initPc, shutPc, lastCycle, lastFetch, trackerOut>>

\* a timer that goes on triggering during shutdown
TriggerSuppressedNever(shuttingDown) == FALSE

\* scheduledPoll line 139: if (this.isShuttingDown) return
TriggerSuppressed(shuttingDown) == shuttingDown

\* scheduledPoll, when the timer fires after the application has started
ScheduledPoll(s) ==
    /\ initPc = "done"
    /\ IF TriggerSuppressed(isShuttingDown)
       THEN /\ lastTrigger' = "suppressed"
            /\ UNCHANGED <<isRunning, inv>>
       ELSE IF SkipPoll(isRunning)
       THEN /\ lastTrigger' = "skipped"
            /\ UNCHANGED <<isRunning, inv>>
       ELSE PollEnter(s, "timer")
    /\ UNCHANGED <<store, domain, isShuttingDown, initPc, shutPc, lastCycle, lastFetch, trackerOut>>

\* line 156-157: getLastCursor() returned; startLedger
ReadCursor(s) ==
    /\ inv[s].pc = "cursor"
    /\ LET cursor == GetLastCursor(ledgerCursor) IN
       inv' = [inv EXCEPT ![s].pc = "latest",
                          ![s].cursor0 = cursor.lastLedgerSeq,
                          ![s].start = StartLedger(cursor)]
    /\ UNCHANGED <<store, domain, isRunning, isShuttingDown, initPc, shutPc,
                   lastTrigger, lastCycle, lastFetch, trackerOut>>

\* line 160-166: getLatestLedger() returned or failed; nothing to do when
\* startLedger > latestLedger
GetLatest(s) ==
    /\ inv[s].pc = "latest"
    /\ \/ /\ inv' = [inv EXCEPT ![s].pc = "catch", ![s].error = OtherError]
          /\ UNCHANGED <<isRunning, initPc, lastCycle, lastTrigger>>
       \/ \E latestLedger \in LatestLedgers :
            LET i == [inv[s] EXCEPT !.latest = latestLedger] IN
            IF NothingToProcess(i.start, latestLedger)
            THEN Finish(s, i, ledgerCursor, "noop", FALSE)
            ELSE /\ inv' = [inv EXCEPT ![s] = [i EXCEPT !.pc = "fetch", !.attempt = 1]]
                 /\ UNCHANGED <<isRunning, initPc, lastCycle, lastTrigger>>
    /\ trackerOut' = AfterStart(s)
    /\ UNCHANGED <<store, domain, isShuttingDown, shutPc, lastFetch>>

\* the opaque continuation tokens of the getEvents responses
Tokens == {"p1", "p2"}

\* fetchEvents line 288-303: a response without events that carries a cursor;
\* nothing is accumulated, the limit is not reached and `while (cursor)` asks
\* for the next page
FetchEmptyPage(s) ==
    /\ inv[s].pc = "fetch"
    /\ ~FetchLimitReached(0)
    /\ \E cursor \in Tokens \ {inv[s].token} :
         inv' = [inv EXCEPT ![s].token = cursor]
    /\ UNCHANGED <<store, domain, isRunning, isShuttingDown, initPc, shutPc,
                   lastTrigger, lastCycle, lastFetch, trackerOut>>

\* fetchEventsWithRetry: one attempt of fetchEvents; on failure the backoff
\* sleep, or the terminal failure after the last attempt. fetchEvents reads
\* page after page until the RPC returns no cursor, or until the limit is
\* reached while the RPC still holds events of ledger startLedger (more); the
\* pages of a response sequence that ends are taken in one step
FetchAttempt(s) ==
    /\ inv[s].pc = "fetch"
    /\ \/ \E b \in RpcBatches(inv[s].start) \cup FullBatches(inv[s].start),
               more \in BOOLEAN :
            LET events == [k \in 1..Len(b) |-> TransformRpcEvent(b[k])] IN
            /\ more => FetchLimitReached(Len(b))
            /\ inv' = [inv EXCEPT ![s].events = events,
                                  ![s].fetched = TRUE,
                                  ![s].truncated = more,
                                  ![s].token = UndefS,
                                  ![s].idx = 1,
                                  ![s].pc = IF Len(events) = 0 THEN "updateEmpty"
                                            ELSE "event"]
            /\ lastFetch' = [start |-> inv[s].start, end |-> inv[s].latest,
                             prevEnd |-> lastFetch.end]
            /\ lastCycle' = NoCycle
       \/ /\ LET lastError == RpcFailure(inv[s].attempt) IN
             IF RetryAgain(inv[s].attempt)
             THEN inv' = [inv EXCEPT ![s].attempt = @ + 1,
                                     ![s].token = UndefS,
                                     ![s].lastError = lastError,
                                     ![s].delays = Append(@, BackoffDelay(inv[s].attempt))]
             ELSE inv' = [inv EXCEPT ![s].pc = AfterFetchFailure,
                                     ![s].token = UndefS,
                                     ![s].lastError = lastError,
                                     ![s].error = FetchFailedError(lastError)]
          /\ UNCHANGED <<lastFetch, lastCycle>>
    /\ UNCHANGED <<store, domain, isRunning, isShuttingDown, initPc, shutPc,
                   lastTrigger, trackerOut>>

\* line 186-201: processEvent(events[idx]); a failure is counted and logged
\* through logError, and the loop goes on
ProcessNext(s) ==
    /\ inv[s].pc = "event"
    /\ LET i == inv[s]
           r == ProcessEvent(processedEvent, Dom(users, projects, contributions, milestones),
                             i.events[i.idx])
       IN /\ processedEvent' = r.pe
          /\ users' = r.dom.users
          /\ projects' = r.dom.projects
          /\ contributions' = r.dom.contributions
          /\ milestones' = r.dom.milestones
          /\ inv' = [inv EXCEPT
                ![s].dispatched = @ + 1,
                ![s].processedCount = IF ~r.threw /\ r.ret THEN @ + 1 ELSE @,
                ![s].errorCount = IF r.threw THEN @ + 1 ELSE @,
                ![s].logs = IF r.threw THEN Append(@, "error") ELSE @,
                ![s].idx = @ + 1,
                ![s].pc = IF i.idx = Len(i.events) THEN "update" ELSE "event"]
    /\ UNCHANGED <<ledgerCursor, isRunning, isShuttingDown, initPc, shutPc,
                   lastTrigger, lastCycle, lastFetch, trackerOut>>

\* a cycle that leaves the cursor alone when it went down since the cycle
\* read it
CursorTargetUnlessRolledBack(latestLedger, cursor0, cursor) ==
    IF cursor.lastLedgerSeq < cursor0 THEN cursor.lastLedgerSeq ELSE latestLedger

\* line 176 and line 204: the ledger the cycle writes is latestLedger, whatever
\* the cycle read at line 156 (cursor0) and whatever the cursor holds by now
CursorTarget(latestLedger, cursor0, cursor) == latestLedger

\* line 176 and line 204: updateCursor(latestLedger); the empty batch returns
AdvanceCursor(s) ==
    /\ inv[s].pc \in {"updateEmpty", "update"}
    /\ LET target == CursorTarget(inv[s].latest, inv[s].cursor0,
                                  GetLastCursor(ledgerCursor))
           upd == UpdateCursor(ledgerCursor, target, UndefS) IN
       /\ ledgerCursor' = upd.lc
       /\ IF ~upd.ok
          THEN /\ inv' = [inv EXCEPT ![s].pc = "catch", ![s].error = OtherError]
               /\ UNCHANGED <<isRunning, initPc, lastCycle, lastTrigger>>
          ELSE IF inv[s].pc = "updateEmpty"
          THEN Finish(s, inv[s], upd.lc, "empty", FALSE)
          ELSE /\ inv' = [inv EXCEPT ![s].pc = "progress"]
               /\ UNCHANGED <<isRunning, initPc, lastCycle, lastTrigger>>
    /\ UNCHANGED <<processedEvent, domain, isShuttingDown, shutPc, lastFetch,
                   trackerOut>>

\* line 207: logProgress(latestLedger, latestLedger, processedCount)
LogProgress(s) ==
    /\ inv[s].pc = "progress"
    /\ Finish(s, [inv[s] EXCEPT !.logs = Append(@, "info")], ledgerCursor,
              "processed", FALSE)
    /\ UNCHANGED <<store, domain, isShuttingDown, shutPc, lastFetch, trackerOut>>

\* line 213-218: the catch block logs 'Poll cycle failed'
CatchError(s) ==
    /\ inv[s].pc = "catch"
    /\ Finish(s, [inv[s] EXCEPT !.logs = Append(@, "error")], ledgerCursor,
              "failed", FALSE)
    /\ UNCHANGED <<store, domain, isShuttingDown, shutPc, lastFetch, trackerOut>>

\* a shutdown that does not wait
StillRunningNever(running) == FALSE

\* onModuleDestroy line 102: while (this.isRunning)
StillRunning(running) == running

\* onModuleDestroy: isShuttingDown = true, then the wait loop's first test
OnModuleDestroy ==
    /\ initPc = "done"
    /\ shutPc = "none"
    /\ isShuttingDown' = TRUE
    /\ shutPc' = IF StillRunning(isRunning) THEN "waiting" ELSE "returned"
    /\ UNCHANGED <<store, domain, isRunning, initPc, inv, lastTrigger, lastCycle,
                   lastFetch, trackerOut>>

\* onModuleDestroy line 102-104: sleep(100) elapsed, the loop tests isRunning
ShutdownWait ==
    /\ shutPc = "waiting"
    /\ shutPc' = IF StillRunning(isRunning) THEN "waiting" ELSE "returned"
    /\ UNCHANGED <<store, domain, isRunning, isShuttingDown, initPc, inv,
                   lastTrigger, lastCycle, lastFetch, trackerOut>>

(* ========================== specification ============================= *)

\* the store when the service is constructed: no cursor of the network, or
\* the cursor an earlier run or an earlier updateCursor(seq, hash) left; rows of
\* another network's indexer
InitStore ==
    /\ ledgerCursor \in
         {{[network |-> OtherNetwork, lastLedgerSeq |-> 2, lastLedgerHash |-> NoHash]}
             \cup c : c \in {{}} \cup
                 {{[network |-> Network, lastLedgerSeq |-> n, lastLedgerHash |-> h]} :
                      n \in Ledgers, h \in {NoHash, "H1"}}}
    /\ processedEvent =
         {[eventId |-> EventIdOf(0), network |-> OtherNetwork, ledgerSeq |-> 2,
           contractId |-> "C1", eventType |-> CONTRIBUTION_MADE,
           transactionHash |-> "tx9"]}
    /\ users = {[walletAddress |-> "GA", reputationScore |-> 0]}
    /\ projects = {[contractId |-> 1, creatorId |-> "GA", goal |-> 10, deadline |-> 5,
                    status |-> "ACTIVE", currentFunds |-> 0]}
    /\ contributions = {}
    /\ milestones = {[projectId |-> 1, milestoneId |-> m, status |-> "PENDING",
                      completionDate |-> UndefN] : m \in {0, 1}}

InitService ==
    /\ isRunning = FALSE
    /\ isShuttingDown = FALSE
    /\ initPc = "start"
    /\ shutPc = "none"
    /\ inv = [s \in Slots |-> IdleInv]
    /\ lastTrigger = "none"
    /\ lastCycle = NoCycle
    /\ lastFetch = [start |-> UndefN, end |-> UndefN, prevEnd |-> UndefN]
    /\ trackerOut = [op |-> "none"]

Init == InitStore /\ InitService

Next ==
    \/ InitializeIndexer
    \/ \E s \in Slots : InitialPoll(s)
    \/ \E s \in Slots : ScheduledPoll(s)
    \/ \E s \in Slots : ReadCursor(s)
    \/ \E s \in Slots : GetLatest(s)
    \/ \E s \in Slots : FetchAttempt(s)
    \/ \E s \in Slots : ProcessNext(s)
    \/ \E s \in Slots : AdvanceCursor(s)
    \/ \E s \in Slots : LogProgress(s)
    \/ \E s \in Slots : CatchError(s)
    \/ OnModuleDestroy
    \/ ShutdownWait

Spec == Init /\ [][Next]_vars

\* the steps of the pollEvents invocation of slot s after its guard
CycleStep(s) ==
    \/ ReadCursor(s)
    \/ GetLatest(s)
    \/ FetchAttempt(s)
    \/ ProcessNext(s)
    \/ AdvanceCursor(s)
    \/ LogProgress(s)
    \/ CatchError(s)

\* the event loop resumes every pending await: a cycle in flight goes on to
\* its end, and the sleep(100) of the wait loop of onModuleDestroy elapses
SpecLive ==
    /\ Init
    /\ [][Next]_vars
    /\ \A s \in Slots : WF_vars(CycleStep(s))
    /\ WF_vars(ShutdownWait)

(* ============ the store and the log sink may fail ===================== *)

\* getLastCursor() rejects: the cycle goes to its catch block
FaultReadCursor(s) ==
    /\ inv[s].pc = "cursor"
    /\ inv' = [inv EXCEPT ![s].pc = "catch", ![s].error = OtherError]
    /\ trackerOut' = AfterStart(s)
    /\ UNCHANGED <<store, domain, isRunning, isShuttingDown, initPc, shutPc,
                   lastTrigger, lastCycle, lastFetch>>

\* line 188-199: isEventProcessed() rejects inside processEvent(events[idx]);
\* the catch of the loop counts the error and awaits logError, which writes the
\* record (logged) or rejects too, and then the exception leaves the loop
FaultProcessEvent(s) ==
    /\ inv[s].pc = "event"
    /\ Len(inv[s].events) <= MaxBatch
    /\ \E logged \in BOOLEAN :
         inv' = [inv EXCEPT
             ![s].dispatched = @ + 1,
             ![s].errorCount = @ + 1,
             ![s].logs = IF logged THEN Append(@, "error") ELSE @,
             ![s].idx = IF logged THEN @ + 1 ELSE @,
             ![s].error = IF ~logged THEN OtherError ELSE @,
             ![s].pc = IF ~logged THEN "catch"
                       ELSE IF inv[s].idx = Len(inv[s].events) THEN "update"
                       ELSE "event"]
    /\ UNCHANGED <<store, domain, isRunning, isShuttingDown, initPc, shutPc,
                   lastTrigger, lastCycle, lastFetch, trackerOut>>

\* updateCursor() rejects
FaultAdvanceCursor(s) ==
    /\ inv[s].pc \in {"updateEmpty", "update"}
    /\ inv' = [inv EXCEPT ![s].pc = "catch", ![s].error = OtherError]
    /\ UNCHANGED <<store, domain, isRunning, isShuttingDown, initPc, shutPc,
                   lastTrigger, lastCycle, lastFetch, trackerOut>>

\* logProgress() rejects
FaultLogProgress(s) ==
    /\ inv[s].pc = "progress"
    /\ inv' = [inv EXCEPT ![s].pc = "catch", ![s].error = OtherError]
    /\ UNCHANGED <<store, domain, isRunning, isShuttingDown, initPc, shutPc,
                   lastTrigger, lastCycle, lastFetch, trackerOut>>

\* line 215: logError() rejects inside the catch block: finally runs and the
\* promise of pollEvents rejects
FaultCatchError(s) ==
    /\ inv[s].pc = "catch"
    /\ Finish(s, inv[s], ledgerCursor, "failed", TRUE)
    /\ UNCHANGED <<store, domain, isShuttingDown, shutPc, lastFetch, trackerOut>>

NextFaults ==
    \/ Next
    \/ \E s \in Slots : FaultReadCursor(s)
    \/ \E s \in Slots : FaultProcessEvent(s)
    \/ \E s \in Slots : FaultAdvanceCursor(s)
    \/ \E s \in Slots : FaultLogProgress(s)
    \/ \E s \in Slots : FaultCatchError(s)

SpecFaults == Init /\ [][NextFaults]_vars

(* ====== every awaited call returns: pages, faults, fairness ========== *)

\* the cycle of slot s goes on when the call it awaits returns or rejects
CallReturns(s) ==
    \/ CycleStep(s)
    \/ FetchEmptyPage(s)
    \/ FaultReadCursor(s)
    \/ FaultProcessEvent(s)
    \/ FaultAdvanceCursor(s)
    \/ FaultLogProgress(s)
    \/ FaultCatchError(s)

NextPages == NextFaults \/ \E s \in Slots : FetchEmptyPage(s)

\* a store that holds the cursor of a previous run, without hash
InitPages ==
    /\ Init
    /\ GetLastCursor(ledgerCursor) =
          [network |-> Network, lastLedgerSeq |-> 1, lastLedgerHash |-> NoHash]

\* no awaited RPC, store or log call hangs: the event loop resumes the cycle
\* in flight, whatever the call returned
SpecPages ==
    /\ InitPages
    /\ [][NextPages]_vars
    /\ \A s \in Slots : WF_vars(CallReturns(s))

(* ====== fetchEvents against a given sequence of responses ============= *)

\* fetchEvents(startLedger, endLedger) against the responses the RPC has given
\* so far and one more: the call as far as these responses take it
FetchEventsCall ==
    /\ trackerOut.op \in {"none", "fetchEvents"}
    /\ LET given == IF trackerOut.op = "none" THEN <<>> ELSE trackerOut.responses IN
       /\ Len(given) < MaxPages
       /\ \E response \in Responses(Len(given) + 1) :
            LET responses == Append(given, response) IN
            trackerOut' = [op |-> "fetchEvents", responses |-> responses,
                           result |-> FetchEvents(responses)]
    /\ UNCHANGED <<store, domain, isRunning, isShuttingDown, initPc, shutPc,
                   inv, lastTrigger, lastCycle, lastFetch>>

SpecFetch == InitPages /\ [][FetchEventsCall]_vars

(* ====== the services called from outside the orchestrator ============= *)

\* the ledgers detectReorg is asked about
RemoteLedgers == {[sequence |-> n, hash |-> h] : n \in LatestLedgers, h \in Hashes \cup {""}}

\* detectReorg(currentLedger) called while the indexer runs (one reorg check
\* in a run, at any point of any cycle)
ExternalDetectReorg ==
    /\ initPc = "done"
    /\ trackerOut.op = "none"
    /\ \E currentLedger \in {l \in RemoteLedgers : l.hash = "H2"} :
         trackerOut' = [op |-> "detectReorg", currentLedger |-> currentLedger,
                        result |-> DetectReorg(ledgerCursor, currentLedger)]
    /\ UNCHANGED <<store, domain, isRunning, isShuttingDown, initPc, shutPc,
                   inv, lastTrigger, lastCycle, lastFetch>>

\* handleReorg(result) on the result detectReorg returned
ExternalHandleReorg ==
    /\ trackerOut.op = "detectReorg"
    /\ LET r == HandleReorg(ledgerCursor, processedEvent, trackerOut.result) IN
       /\ ledgerCursor' = r.lc
       /\ processedEvent' = r.pe
       /\ trackerOut' = [op |-> "handleReorg", reorgResult |-> trackerOut.result,
                         ok |-> r.ok, ret |-> r.ret]
    /\ UNCHANGED <<domain, isRunning, isShuttingDown, initPc, shutPc,
                   inv, lastTrigger, lastCycle, lastFetch>>

NextReorg == Next \/ ExternalDetectReorg \/ ExternalHandleReorg

SpecReorg == Init /\ [][NextReorg]_vars

(* ============ EventHandlerService called with decoded events ========= *)

\* a ParsedContractEvent of the given type carrying the given data fields
ParsedEvent(eventType, data) ==
    [eventId |-> EventIdOf(1), ledgerSeq |-> 1, ledgerClosedAt |-> 1,
     contractId |-> "C1", eventType |-> eventType, transactionHash |-> "tx1",
     data |-> data]

\* project 1 is in the store from the start, project 42 is not
KnownProject == 1
UnknownProject == 42

\* decoded ContributionMade events of a new contributor to either project
ContributionEvents ==
    {ParsedEvent(CONTRIBUTION_MADE,
                 [NoData EXCEPT !.projectId = p, !.contributor = "GB",
                                !.amount = 5, !.totalRaised = 5]) :
        p \in {KnownProject, UnknownProject}}

\* EventHandlerService.processEvent(event) for a decoded event of the set;
\* repeated tells that the call before this one had the same event
RegistryProcessEvent(events) ==
    /\ \E event \in events :
         LET r == HandlerProcessEvent(Dom(users, projects, contributions, milestones),
                                      event)
         IN /\ users' = r.dom.users
            /\ projects' = r.dom.projects
            /\ contributions' = r.dom.contributions
            /\ milestones' = r.dom.milestones
            /\ trackerOut' = [op |-> "handlerProcessEvent", event |-> event,
                              threw |-> r.threw, ret |-> r.ret,
                              validated |-> r.validated, handled |-> r.handled,
                              repeated |-> /\ trackerOut.op = "handlerProcessEvent"
                                           /\ trackerOut.event = event]
    /\ UNCHANGED <<store, isRunning, isShuttingDown, initPc, shutPc, inv,
                   lastTrigger, lastCycle, lastFetch>>

\* the data of a decoded event about project p with every field a handler
\* reads, the same with the amounts left out, and with amounts that are not
\* numbers (BigInt throws)
FullData(p) ==
    [NoData EXCEPT !.projectId = p, !.creator = "GA", !.fundingGoal = 10,
                   !.deadline = 5, !.token = "T", !.contributor = "GB",
                   !.amount = 5, !.totalRaised = 5, !.milestoneId = 0]
NoAmountData(p) == [FullData(p) EXCEPT !.amount = UndefN, !.fundingGoal = UndefN]
BadAmountData(p) == [FullData(p) EXCEPT !.amount = NaS, !.fundingGoal = NaS]

\* event types without a handler: members of the enum that registerHandlers
\* leaves out
UnhandledTypes == {"vote", "m_create"}

\* the decoded events handed to the registry
HandlerEvents ==
    {ParsedEvent(t, d) :
        t \in HandlerTypes,
        d \in {NoData, FullData(KnownProject), FullData(UnknownProject)}}
      \cup {ParsedEvent(t, NoAmountData(KnownProject)) :
               t \in {CONTRIBUTION_MADE, FUNDS_RELEASED}}
      \cup {ParsedEvent(t, BadAmountData(KnownProject)) :
               t \in {PROJECT_CREATED, CONTRIBUTION_MADE}}
      \cup {ParsedEvent(t, FullData(KnownProject)) : t \in UnhandledTypes}

\* EventHandlerService.processEvent called with any of the decoded events
HandlerDelivered == RegistryProcessEvent(HandlerEvents)

NextHandlers == HandlerDelivered

\* the registry reads and writes the domain tables only: one initial cursor
\* table stands for all
InitHandlers == Init /\ GetLastCursor(ledgerCursor) = NoCursor

SpecHandlers == InitHandlers /\ [][NextHandlers]_vars

(* ====== processEvent with the data fields of the events decoded ====== *)

\* the events of the chain about project 42, which the store does not hold at
\* start, and a contribution to project 1: the RPC event and its data fields
DecodedInput(id, ledger, eventType, txHash, p) ==
    [event |-> [id |-> id, ledger |-> ledger, ledgerClosedAt |-> ledger,
                contractId |-> "C1", topic |-> <<eventType>>, value |-> "xdr",
                txHash |-> txHash, transactionHash |-> UndefS],
     data |-> FullData(p)]

DecodedInputs ==
    {DecodedInput(1, 1, CONTRIBUTION_MADE, "tx1", UnknownProject),
     DecodedInput(2, 1, MILESTONE_APPROVED, "tx2", UnknownProject),
     DecodedInput(3, 2, FUNDS_RELEASED, "tx3", UnknownProject),
     DecodedInput(4, 2, PROJECT_CREATED, "tx4", UnknownProject),
     DecodedInput(5, 3, CONTRIBUTION_MADE, "tx5", KnownProject)}

\* the ids of the events a handler has applied (handle returned normally) and
\* whose dedup row no rollback has purged since, as recorded with the calls
Applied(out) ==
    IF out.op \in {"processDecoded", "rolledBack"} THEN out.applied ELSE {}

\* the body of the loop of pollEvents for one event: processEvent(event), the
\* events dispatched one after the other, in any order, any number of times
DecodedDelivered ==
    /\ \E i \in DecodedInputs :
         LET event == TransformRpcEvent(i.event)
             r == ProcessEventDecoded(processedEvent,
                                      Dom(users, projects, contributions, milestones),
                                      event, i.data)
         IN /\ processedEvent' = r.pe
            /\ users' = r.dom.users
            /\ projects' = r.dom.projects
            /\ contributions' = r.dom.contributions
            /\ milestones' = r.dom.milestones
            /\ trackerOut' = [op |-> "processDecoded", event |-> event,
                              data |-> i.data,
                              wasProcessed |-> IsEventProcessed(processedEvent, event.id),
                              threw |-> r.threw, ret |-> r.ret,
                              validated |-> r.validated, handled |-> r.handled,
                              applied |-> Applied(trackerOut) \cup
                                  (IF r.handled /\ ~r.threw THEN {event.id} ELSE {})]
    /\ UNCHANGED <<ledgerCursor, isRunning, isShuttingDown, initPc, shutPc,
                   inv, lastTrigger, lastCycle, lastFetch>>

\* the cursor after the ledgers of these events were indexed
InitDecoded ==
    /\ Init
    /\ GetLastCursor(ledgerCursor) =
          [network |-> Network, lastLedgerSeq |-> 3, lastLedgerHash |-> NoHash]

SpecDecoded == InitDecoded /\ [][DecodedDelivered]_vars

\* the application once started: the poll cycles, and decoded ContributionMade
\* events handed to the registry
ContributionDelivered ==
    /\ initPc = "done"
    /\ RegistryProcessEvent(ContributionEvents)

NextContrib == Next \/ ContributionDelivered

\* a first start: getStartLedger creates the cursor, at any ledger
InitContrib == Init /\ GetLastCursor(ledgerCursor) = NoCursor

SpecContrib == InitContrib /\ [][NextContrib]_vars

\* the ledgers whose events are marked and delivered from outside a cycle
MarkedLedgers == 1..Min(2, MaxLedger)

MarkArgs ==
    {a \in [eventId : {EventIdOf(l) : l \in MarkedLedgers}, ledgerSeq : 1..MaxLedger,
            contractId : {"C1"}, eventType : {CONTRIBUTION_MADE},
            transactionHash : {"tx1", "tx2"}] :
        a.ledgerSeq \in {a.eventId, MaxLedger}}

\* updateCursor(ledgerSeq, ledgerHash?) called directly
TrackerUpdateCursor ==
    /\ \E n \in Ledgers, h \in Hashes \cup {UndefS} :
         LET upd == UpdateCursor(ledgerCursor, n, h) IN
         /\ ledgerCursor' = upd.lc
         /\ trackerOut' = [op |-> "updateCursor", ok |-> upd.ok]
    /\ UNCHANGED <<processedEvent, domain, isRunning, isShuttingDown, initPc, shutPc,
                   inv, lastTrigger, lastCycle, lastFetch>>

\* detectReorg(currentLedger)
TrackerDetectReorg ==
    /\ \E currentLedger \in RemoteLedgers :
         trackerOut' = [op |-> "detectReorg", currentLedger |-> currentLedger,
                        result |-> DetectReorg(ledgerCursor, currentLedger)]
    /\ UNCHANGED <<store, domain, isRunning, isShuttingDown, initPc, shutPc,
                   inv, lastTrigger, lastCycle, lastFetch>>

\* detection results a caller of handleReorg may hold besides the one
\* detectReorg just returned: a shallow reorg far from ledger 0, a deep one
\* that reaches the threshold, a shallow one next to ledger 0, and no reorg
ReorgResults ==
    {[hasReorg |-> TRUE, reorgDepth |-> 1, lastValidLedger |-> 99, newLatestLedger |-> 99],
     [hasReorg |-> TRUE, reorgDepth |-> 4, lastValidLedger |-> 6, newLatestLedger |-> 6],
     [hasReorg |-> TRUE, reorgDepth |-> 1, lastValidLedger |-> 2, newLatestLedger |-> 2],
     [hasReorg |-> FALSE, reorgDepth |-> 0, lastValidLedger |-> 2, newLatestLedger |-> 3]}

\* handleReorg(result) on the result detectReorg just returned or on one of
\* ReorgResults; a result that reports a reorg stems from a detection against
\* a cursor row, and cursor rows are never deleted
TrackerHandleReorg ==
    /\ \E res \in ReorgResults
                    \cup (IF trackerOut.op = "detectReorg" THEN {trackerOut.result} ELSE {}) :
         /\ res.hasReorg => GetLastCursor(ledgerCursor) # NoCursor
         /\ LET r == HandleReorg(ledgerCursor, processedEvent, res) IN
            /\ ledgerCursor' = r.lc
            /\ processedEvent' = r.pe
            /\ trackerOut' = [op |-> "handleReorg", reorgResult |-> res,
                              ok |-> r.ok, ret |-> r.ret,
                              purged |-> Cardinality(processedEvent \ r.pe),
                              detected |-> /\ trackerOut.op = "detectReorg"
                                           /\ trackerOut.result = res]
    /\ UNCHANGED <<domain, isRunning, isShuttingDown, initPc, shutPc,
                   inv, lastTrigger, lastCycle, lastFetch>>

\* markEventProcessed(eventId, ledgerSeq, contractId, eventType, transactionHash)
TrackerMarkEventProcessed ==
    /\ \E a \in MarkArgs :
         /\ processedEvent' = MarkEventProcessed(processedEvent, a.eventId, a.ledgerSeq,
                                   a.contractId, a.eventType, a.transactionHash)
         /\ trackerOut' = [op |-> "markEventProcessed", args |-> a,
                           existed |-> \E r \in processedEvent : r.eventId = a.eventId]
    /\ UNCHANGED <<ledgerCursor, domain, isRunning, isShuttingDown, initPc, shutPc,
                   inv, lastTrigger, lastCycle, lastFetch>>

\* the body of the loop of pollEvents for one event the RPC delivers:
\* IndexerService.processEvent(event)
DeliverEvent ==
    /\ \E w \in {e \in RpcEvents(1, PipelineTopics) : e.ledger \in MarkedLedgers} :
         LET event == TransformRpcEvent(w)
             r == ProcessEvent(processedEvent,
                               Dom(users, projects, contributions, milestones), event)
         IN /\ processedEvent' = r.pe
            /\ users' = r.dom.users
            /\ projects' = r.dom.projects
            /\ contributions' = r.dom.contributions
            /\ milestones' = r.dom.milestones
            /\ trackerOut' = [op |-> "processEvent", eventId |-> event.id,
                              topic |-> event.topic,
                              wasProcessed |-> IsEventProcessed(processedEvent, event.id),
                              ret |-> r.ret, decoded |-> r.decoded,
                              validated |-> r.validated, handled |-> r.handled]
    /\ UNCHANGED <<ledgerCursor, isRunning, isShuttingDown, initPc, shutPc,
                   inv, lastTrigger, lastCycle, lastFetch>>

NextTracker ==
    \/ TrackerUpdateCursor
    \/ TrackerDetectReorg
    \/ TrackerHandleReorg
    \/ TrackerMarkEventProcessed
    \/ DeliverEvent

SpecTracker == Init /\ [][NextTracker]_vars

(* ============================ properties ============================== *)

ActiveSlots == {s \in Slots : Active(s)}

\* the cursor row of the network in a cursor table
CursorOf(lc) == GetLastCursor(lc)

\* cycle c returned after every attempt of its fetch had failed
FetchFailed(c) ==
    c.outcome # "none" /\ ~c.fetched /\ c.end # UndefN /\ c.start <= c.end

\* at most one invocation is past the guard, and isRunning says whether one is
OneCycle == Cardinality(ActiveSlots) <= 1 /\ (isRunning <=> ActiveSlots # {})

\* what a cycle that returned from a terminal fetch failure has done, and the
\* start of the cycle after it
FailedCycleAborted ==
    FetchFailed(lastCycle)
        => /\ lastCycle.outcome = "failed"
           /\ lastCycle.dispatched = 0
           /\ lastCycle.nEvents = 0
           /\ lastCycle.cursorAfter = lastCycle.cursorBefore
           /\ Len(lastCycle.delays) = RetryAttempts - 1
           /\ \A s \in Slots :
                 inv[s].pc \notin {"idle", "cursor"} => inv[s].start = lastCycle.start

OneRowPerNetwork == \A r1, r2 \in ledgerCursor : r1.network = r2.network => r1 = r2

\* C1: pollEvents is single-flight. At most one invocation is past the guard
\* at any time, isRunning is true exactly while one is, and a trigger that
\* arrives during a running cycle returns at once and changes nothing of the
\* store, of the running cycle or of the flags.
C1_SingleFlight ==
    [][/\ OneCycle
       /\ OneCycle'
       /\ (lastTrigger # "skipped" /\ lastTrigger' = "skipped")
            => /\ isRunning
               /\ UNCHANGED <<store, domain, isRunning, isShuttingDown, inv,
                              lastCycle, lastFetch>>]_vars

\* a timer tick found a cycle running and was skipped
C1_Witness == isRunning /\ lastTrigger = "skipped" /\ ActiveSlots # {}

\* C2: when every attempt of the fetch fails the cycle aborts as a whole:
\* while it fetches and after the terminal failure it dispatches no event and
\* writes nothing to the store, the cursor at its return is the cursor it read,
\* and the next cycle computes the same start.
C2_FetchFailureAborts ==
    [][/\ FailedCycleAborted
       /\ FailedCycleAborted'
       /\ (\E s \in Slots : ~inv[s].fetched /\ inv[s].attempt >= 1)
            => UNCHANGED <<store, domain>>]_vars

\* a cycle failed in its fetch and the next cycle has computed its start
C2_Witness ==
    /\ FetchFailed(lastCycle)
    /\ \E s \in Slots : inv[s].pc = "fetch" /\ inv[s].start = lastCycle.start

C4_FailureDoesNotAbort ==
    lastCycle.errorCount > 0 =>
        /\ lastCycle.dispatched = lastCycle.nEvents
        /\ lastCycle.cursorAfter = lastCycle.end

\* C5: the cursor never decreases across startup and poll cycles, also when
\* the remote latest ledger is below it; the one operation that lowers it is
\* handleReorg on a result with hasReorg = true; a network has at most one
\* cursor row and no cursor row is ever deleted.
C5_CursorMonotone ==
    [][/\ OneRowPerNetwork
       /\ OneRowPerNetwork'
       /\ \A r \in ledgerCursor : \E r2 \in ledgerCursor' : r2.network = r.network
       /\ (/\ CursorOf(ledgerCursor) # NoCursor
           /\ CursorOf(ledgerCursor').lastLedgerSeq
                  < CursorOf(ledgerCursor).lastLedgerSeq)
            => /\ trackerOut' # trackerOut
               /\ trackerOut'.op = "handleReorg"
               /\ trackerOut'.reorgResult.hasReorg]_vars

\* a cycle saw a remote latest below the cursor and left the cursor alone, and
\* a later handleReorg lowered the cursor
C5_Witness ==
    /\ lastCycle.outcome = "noop"
    /\ lastCycle.end < lastCycle.cursorBefore
    /\ lastCycle.cursorAfter = lastCycle.cursorBefore
    /\ trackerOut.op = "handleReorg"
    /\ trackerOut.reorgResult.hasReorg
    /\ CursorOf(ledgerCursor).lastLedgerSeq < lastCycle.cursorBefore

\* C6: without a reorg rollback the ranges of successive fetching cycles are
\* contiguous: the cycle that fetches after a cycle fetched over [s, e] starts
\* at e + 1.
C6_ContiguousRanges ==
    lastFetch.prevEnd # UndefN => lastFetch.start = lastFetch.prevEnd + 1

\* two cycles fetched one after the other
C6_Witness ==
    /\ lastFetch.prevEnd # UndefN
    /\ lastFetch.start = lastFetch.prevEnd + 1
    /\ lastFetch.start <= lastFetch.end

\* the dedup rows of an event id, whatever their network
RowsOf(pe, eventId) == {r \in pe : r.eventId = eventId}

\* C7: markEventProcessed is idempotent on eventId. After a call there is
\* exactly one row for the id and isEventProcessed is true for it; the first
\* call creates the row from its arguments, and a later call, with the same
\* or with other arguments, leaves the dedup ledger as it was.
C7_MarkIdempotent ==
    [][trackerOut'.op = "markEventProcessed"
        => LET a == trackerOut'.args IN
           /\ Cardinality(RowsOf(processedEvent', a.eventId)) = 1
           /\ IsEventProcessed(processedEvent', a.eventId)
           /\ RowsOf(processedEvent, a.eventId) # {} => processedEvent' = processedEvent
           /\ RowsOf(processedEvent, a.eventId) = {}
                => RowsOf(processedEvent', a.eventId) =
                     {[eventId |-> a.eventId, network |-> Network,
                       ledgerSeq |-> a.ledgerSeq, contractId |-> a.contractId,
                       eventType |-> a.eventType,
                       transactionHash |-> a.transactionHash]}]_vars

\* a second call for an id came with other arguments than the row holds
C7_Witness ==
    /\ trackerOut.op = "markEventProcessed"
    /\ trackerOut.existed
    /\ \E r \in RowsOf(processedEvent, trackerOut.args.eventId) :
          /\ r.transactionHash # trackerOut.args.transactionHash
          /\ r.ledgerSeq # trackerOut.args.ledgerSeq

\* C8: delivering an event whose id has a dedup row of the network changes
\* neither the domain model nor the dedup ledger: the event is skipped before
\* it is decoded, and no handler validates or handles it.
C8_RedeliverySkipped ==
    [][(/\ trackerOut'.op = "processEvent"
        /\ \E r \in processedEvent :
              r.eventId = trackerOut'.eventId /\ r.network = Network)
        => /\ UNCHANGED <<store, domain>>
           /\ ~trackerOut'.decoded
           /\ ~trackerOut'.validated
           /\ ~trackerOut'.handled
           /\ ~trackerOut'.ret]_vars

\* an event of a type with a handler was delivered after its id was marked
C8_Witness ==
    /\ trackerOut.op = "processEvent"
    /\ trackerOut.topic = <<"contrib">>
    /\ \E r \in processedEvent :
          r.eventId = trackerOut.eventId /\ r.network = Network
    /\ ~trackerOut.decoded

\* the cursor has a row with a hash
HashCursor(c) == c # NoCursor /\ c.lastLedgerHash \notin {NoHash, ""}

\* C9: detectReorg reports depth 1 and lastValidLedger = remote.sequence - 1
\* when the remote ledger has the sequence of the cursor and another hash,
\* and depth cursorSeq - remoteSeq when the remote sequence is below the
\* cursor.
C9_ReorgDepth ==
    trackerOut.op = "detectReorg" =>
        LET c == CursorOf(ledgerCursor)
            cur == trackerOut.currentLedger
            res == trackerOut.result
        IN /\ (/\ HashCursor(c)
               /\ cur.sequence = c.lastLedgerSeq
               /\ cur.hash # c.lastLedgerHash)
                => (res.reorgDepth = 1 /\ res.lastValidLedger = cur.sequence - 1)
           /\ (HashCursor(c) /\ cur.sequence < c.lastLedgerSeq)
                => res.reorgDepth = c.lastLedgerSeq - cur.sequence

\* the remote ledger was two or more ledgers below a cursor with a hash
C9_Witness ==
    /\ trackerOut.op = "detectReorg"
    /\ HashCursor(CursorOf(ledgerCursor))
    /\ trackerOut.currentLedger.sequence + 2 <= CursorOf(ledgerCursor).lastLedgerSeq
    /\ trackerOut.result.reorgDepth >= 2

\* C10: detectReorg reports hasReorg = true exactly when the cursor has a row
\* with a hash and the remote ledger has either the cursor's sequence and
\* another hash or a lower sequence; without a cursor hash it reports
\* lastValidLedger = remote.sequence - 1; it changes neither the cursor nor
\* the dedup ledger.
C10_ReorgClassification ==
    [][trackerOut'.op = "detectReorg" =>
          LET c == CursorOf(ledgerCursor)
              cur == trackerOut'.currentLedger
              res == trackerOut'.result
          IN /\ res.hasReorg <=>
                   /\ HashCursor(c)
                   /\ \/ cur.sequence < c.lastLedgerSeq
                      \/ /\ cur.sequence = c.lastLedgerSeq
                         /\ cur.hash # c.lastLedgerHash
             /\ ~HashCursor(c) => res.lastValidLedger = cur.sequence - 1
             /\ UNCHANGED <<store, domain>>]_vars

\* a cursor without a hash met a remote ledger below it and no reorg was reported
C10_Witness ==
    /\ trackerOut.op = "detectReorg"
    /\ CursorOf(ledgerCursor) # NoCursor
    /\ ~HashCursor(CursorOf(ledgerCursor))
    /\ trackerOut.currentLedger.sequence < CursorOf(ledgerCursor).lastLedgerSeq
    /\ ~trackerOut.result.hasReorg

\* C11: handleReorg called with a result that reports a reorg returns
\* safeLedger = max(0, lastValidLedger - min(reorgDepth + 2, threshold)) and
\* leaves the cursor at safeLedger with no stored hash; with depth 1,
\* lastValidLedger 99 and threshold 5 it resumes from 96.
C11_SafeLedger ==
    [][(trackerOut'.op = "handleReorg" /\ trackerOut'.reorgResult.hasReorg) =>
          LET res == trackerOut'.reorgResult
              rollback == IF res.reorgDepth + 2 <= ReorgDepthThreshold
                          THEN res.reorgDepth + 2 ELSE ReorgDepthThreshold
              safeLedger == IF res.lastValidLedger >= rollback
                            THEN res.lastValidLedger - rollback ELSE 0
          IN /\ trackerOut'.ok
             /\ trackerOut'.ret = safeLedger
             /\ CursorOf(ledgerCursor') # NoCursor
             /\ CursorOf(ledgerCursor').lastLedgerSeq = safeLedger
             /\ CursorOf(ledgerCursor').lastLedgerHash = NoHash
             /\ (res.reorgDepth = 1 /\ res.lastValidLedger = 99
                    /\ ReorgDepthThreshold = 5) => trackerOut'.ret = 96]_vars

\* the reorg of depth 1 with lastValidLedger 99 was handled and the cursor is at 96
C11_Witness ==
    /\ trackerOut.op = "handleReorg"
    /\ trackerOut.reorgResult.hasReorg
    /\ trackerOut.reorgResult.reorgDepth = 1
    /\ trackerOut.reorgResult.lastValidLedger = 99
    /\ trackerOut.ret = 96
    /\ CursorOf(ledgerCursor).lastLedgerSeq = 96
    /\ CursorOf(ledgerCursor).lastLedgerHash = NoHash

\* C12: handleReorg with a result that reports a reorg deletes exactly the
\* dedup rows of the network whose ledgerSeq is above safeLedger and leaves
\* every other row, those of other networks included, as it was; with a result
\* that reports no reorg it changes neither the dedup ledger nor the cursor.
C12_ReorgPurge ==
    [][trackerOut'.op = "handleReorg" =>
          IF trackerOut'.reorgResult.hasReorg
          THEN processedEvent' =
                   processedEvent \ {r \in processedEvent :
                       r.network = Network /\ r.ledgerSeq > trackerOut'.ret}
          ELSE UNCHANGED <<ledgerCursor, processedEvent>>]_vars

\* a purge removed a row of the network and kept a row of the network at or
\* below safeLedger and a row of another network above safeLedger
C12_Witness ==
    /\ trackerOut.op = "handleReorg"
    /\ trackerOut.reorgResult.hasReorg
    /\ \E r \in processedEvent : r.network = Network /\ r.ledgerSeq <= trackerOut.ret
    /\ \E r \in processedEvent : r.network # Network /\ r.ledgerSeq > trackerOut.ret
    /\ trackerOut.purged >= 1

\* C13: when the network has a cursor at N, getStartLedger returns N + 1 for
\* every latest ledger of the RPC and every configured start, and leaves the
\* cursor as it was.
C13_ResumeAfterCursor ==
    [][(/\ trackerOut.op # "getStartLedger"
        /\ trackerOut'.op = "getStartLedger"
        /\ CursorOf(ledgerCursor) # NoCursor)
          => /\ trackerOut'.ret = CursorOf(ledgerCursor).lastLedgerSeq + 1
             /\ ledgerCursor' = ledgerCursor]_vars

\* getStartLedger met a cursor while a start was configured, and returned
\* neither the configured start nor the latest ledger
C13_Witness ==
    /\ trackerOut.op = "getStartLedger"
    /\ trackerOut.hadCursor
    /\ trackerOut.configuredStart # UndefN
    /\ trackerOut.ret \notin {trackerOut.configuredStart, trackerOut.latestLedger}
    /\ trackerOut.ret = CursorOf(ledgerCursor).lastLedgerSeq + 1

\* C14: when the network has no cursor, getStartLedger creates one: with a
\* configured start at configuredStart - 1, returning configuredStart;
\* otherwise at latest - 1, returning latest; and the first poll cycle that
\* follows resolves its start ledger to the returned ledger.
C14_FirstStart ==
    [][/\ (/\ trackerOut.op # "getStartLedger"
           /\ trackerOut'.op = "getStartLedger"
           /\ CursorOf(ledgerCursor) = NoCursor)
             => LET out == trackerOut' IN
                /\ out.ret = IF out.configuredStart # UndefN
                             THEN out.configuredStart ELSE out.latestLedger
                /\ CursorOf(ledgerCursor') # NoCursor
                /\ CursorOf(ledgerCursor').lastLedgerSeq = out.ret - 1
                /\ CursorOf(ledgerCursor').lastLedgerHash = NoHash
                /\ \A r \in ledgerCursor : r \in ledgerCursor'
       /\ \A s \in Slots :
            (/\ trackerOut.op = "getStartLedger"
             /\ ~trackerOut.hadCursor
             /\ inv[s].pc = "cursor"
             /\ inv'[s].pc = "latest")
               => inv'[s].start = trackerOut.ret]_vars

\* no cursor and a configured start other than the latest ledger: the first
\* cycle has resolved its start to the configured start
C14_Witness ==
    /\ trackerOut.op = "getStartLedger"
    /\ ~trackerOut.hadCursor
    /\ trackerOut.configuredStart \notin {UndefN, trackerOut.latestLedger}
    /\ trackerOut.ret = trackerOut.configuredStart
    /\ \E s \in Slots : /\ inv[s].pc = "latest"
                        /\ inv[s].caller = "init"
                        /\ inv[s].start = trackerOut.configuredStart

\* C15: fetchEventsWithRetry calls fetchEvents at most retryAttempts times; the
\* first attempt that succeeds ends the call with its result and no further
\* attempt; when every attempt fails the call fails with an error that names
\* the number of attempts and the message of the last failure.
C15_BoundedRetry ==
    [][\A s \in Slots :
          LET i == inv[s]
              j == inv'[s]
          IN /\ j.attempt <= RetryAttempts
             /\ (i.pc = "fetch" /\ j.fetched)
                  => /\ j.attempt = i.attempt
                     /\ j.pc \in {"event", "updateEmpty"}
                     /\ j.error = NoError
             /\ (i.fetched /\ j.pc # "idle") => j.attempt = i.attempt
             /\ (i.pc = "fetch" /\ j.pc = "fetch" /\ j # i)
                  => j.attempt = i.attempt + 1
             /\ (i.pc = "fetch" /\ j.pc # "fetch" /\ ~j.fetched)
                  => /\ i.attempt = RetryAttempts
                     /\ j.attempt = RetryAttempts
                     /\ j.pc = "catch"
                     /\ j.error = [kind |-> "fetch", attempts |-> RetryAttempts,
                                   cause |-> RpcFailure(RetryAttempts)]]_vars

\* a cycle whose fetch failed retryAttempts times has returned, and its error
\* names the attempts and the failure of the last one
C15_Witness ==
    /\ lastCycle.outcome = "failed"
    /\ ~lastCycle.fetched
    /\ lastCycle.attempts = RetryAttempts
    /\ lastCycle.error.kind = "fetch"
    /\ lastCycle.error.attempts = RetryAttempts
    /\ lastCycle.error.cause = RpcFailure(RetryAttempts)

\* C16: the delay before the retry that follows the k-th failed attempt
\* (1 <= k < retryAttempts) is retryDelayMs * 2^(k - 1), and no delay follows
\* the last attempt; with 3 attempts and 1000 ms the delays are 1000 and 2000
\* and then the terminal failure.
C16_Backoff ==
    /\ \A s \in Slots :
         /\ Len(inv[s].delays) = (IF inv[s].attempt = 0 THEN 0 ELSE inv[s].attempt - 1)
         /\ \A k \in 1..Len(inv[s].delays) :
              inv[s].delays[k] = RetryDelayMs * (2 ^ (k - 1))
         /\ (inv[s].error.kind = "fetch" /\ RetryAttempts = 3 /\ RetryDelayMs = 1000)
              => inv[s].delays = <<1000, 2000>>
    /\ lastCycle.error.kind = "fetch"
         => /\ Len(lastCycle.delays) = RetryAttempts - 1
            /\ \A k \in 1..Len(lastCycle.delays) :
                 lastCycle.delays[k] = RetryDelayMs * (2 ^ (k - 1))

\* the fetch of a cycle has failed for the last time after having waited 1000
\* and 2000 ms
C16_Witness ==
    \E s \in Slots :
        /\ inv[s].pc = "catch"
        /\ inv[s].error.kind = "fetch"
        /\ inv[s].attempt = RetryAttempts
        /\ inv[s].delays = <<RetryDelayMs, 2 * RetryDelayMs>>

\* C17: once onModuleDestroy has set isShuttingDown, no poll cycle starts: a
\* trigger that arrives afterwards returns without entering pollEvents (no
\* invocation becomes active, isRunning is not set, no RPC call is made), and
\* the flag is never cleared.
C17_NoCycleAfterShutdown ==
    [][isShuttingDown =>
          /\ isShuttingDown'
          /\ ActiveSlots' \subseteq ActiveSlots
          /\ (~isRunning => ~isRunning')
          /\ (lastTrigger' # lastTrigger => lastTrigger' \in {"none", "suppressed"})
          /\ (lastTrigger' = "suppressed" /\ lastTrigger # "suppressed")
               => UNCHANGED <<inv, isRunning, store, domain>>]_vars

\* shutdown has returned, nothing runs, and the timer has fired since
C17_Witness ==
    /\ isShuttingDown
    /\ shutPc = "returned"
    /\ lastTrigger = "suppressed"
    /\ ~isRunning
    /\ ActiveSlots = {}

\* a cycle that was in flight during shutdown and has returned went through
\* its whole batch and moved the cursor to the end of its range
ShutdownCycleComplete ==
    lastCycle.fetched =>
        /\ lastCycle.dispatched = lastCycle.nEvents
        /\ lastCycle.cursorAfter = lastCycle.end
        /\ CursorOf(ledgerCursor).lastLedgerSeq = lastCycle.end

\* C18: onModuleDestroy returns only in a state where no cycle is running; a
\* cycle in flight when shutdown began runs to its end (it processes its whole
\* batch and advances the cursor); and shutdown returns eventually, given that
\* the cycle in flight terminates.
C18_ShutdownWaits ==
    /\ [][(shutPc # "returned" /\ shutPc' = "returned")
             => (~isRunning /\ ~isRunning' /\ ActiveSlots' = {})]_vars
    /\ (isShuttingDown /\ isRunning)
          ~> (/\ shutPc = "returned"
              /\ ~isRunning
              /\ ActiveSlots = {}
              /\ lastCycle.outcome # "none"
              /\ ShutdownCycleComplete)

\* shutdown waited for a cycle of two events and returned after it
C18_Witness ==
    /\ shutPc = "returned"
    /\ ~isRunning
    /\ lastCycle.outcome = "processed"
    /\ lastCycle.nEvents = 2
    /\ lastCycle.dispatched = 2
    /\ lastCycle.cursorAfter = lastCycle.end
    /\ lastTrigger # "suppressed"

\* C19: a ContributionMade event that refers to a project the store does not
\* hold is processed without raising: no Contribution row is created and no
\* Project row is created or changed; the cycle that carries such an event
\* goes on past it, completes, and leaves the cursor at the end of its range.
C19_UnknownProject ==
    [][/\ (/\ trackerOut'.op = "handlerProcessEvent"
           /\ trackerOut'.event.eventType = CONTRIBUTION_MADE
           /\ ~HasProject(projects, trackerOut'.event.data.projectId))
             => /\ ~trackerOut'.threw
                /\ contributions' = contributions
                /\ projects' = projects
       /\ \A s \in Slots :
            (/\ inv[s].pc = "event"
             /\ inv'[s].dispatched = inv[s].dispatched + 1
             /\ inv[s].events[inv[s].idx].topic = <<CONTRIBUTION_MADE>>)
               => /\ inv'[s].errorCount = inv[s].errorCount
                  /\ inv'[s].pc = (IF inv[s].idx = Len(inv[s].events)
                                   THEN "update" ELSE "event")
                  /\ contributions' = contributions
                  /\ projects' = projects
       /\ (lastCycle' # lastCycle /\ lastCycle'.fetched)
             => /\ lastCycle'.outcome \in {"empty", "processed"}
                /\ lastCycle'.dispatched = lastCycle'.nEvents
                /\ lastCycle'.cursorAfter = lastCycle'.end]_vars

\* the registry was handed a contribution to project 42 and neither raised
\* nor recorded it, and a cycle of ContributionMade events has moved the
\* cursor to the end of its range
C19_Witness ==
    /\ trackerOut.op = "handlerProcessEvent"
    /\ trackerOut.event.data.projectId = UnknownProject
    /\ trackerOut.handled
    /\ ~trackerOut.threw
    /\ contributions = {}
    /\ ~HasProject(projects, UnknownProject)
    /\ \E s \in Slots :
         /\ inv[s].pc = "progress"
         /\ Len(inv[s].events) = 2
         /\ \A k \in 1..2 : inv[s].events[k].topic = <<CONTRIBUTION_MADE>>
         /\ inv[s].errorCount = 0
         /\ CursorOf(ledgerCursor).lastLedgerSeq = inv[s].latest

\* C20: EventHandlerService.processEvent changes no domain entity and does not
\* raise when the event type has no handler or when validate of the handler
\* returns false; in both cases handle is not invoked and the result is false
\* (the event was not applied).
C20_NotApplied ==
    [][(/\ trackerOut'.op = "handlerProcessEvent"
        /\ \/ trackerOut'.event.eventType \notin HandlerTypes
           \/ ~Validate(trackerOut'.event.eventType, trackerOut'.event))
          => /\ UNCHANGED domain
             /\ ~trackerOut'.threw
             /\ ~trackerOut'.handled
             /\ trackerOut'.ret = FALSE
             /\ (trackerOut'.event.eventType \notin HandlerTypes
                   => ~trackerOut'.validated)]_vars

\* the handler of ContributionMade was found and refused an event without
\* amount, in a store that earlier events had changed
C20_Witness ==
    /\ trackerOut.op = "handlerProcessEvent"
    /\ trackerOut.event.eventType = CONTRIBUTION_MADE
    /\ trackerOut.event.data.projectId = KnownProject
    /\ trackerOut.event.data.amount = UndefN
    /\ trackerOut.validated
    /\ ~trackerOut.handled
    /\ ~trackerOut.ret
    /\ ~trackerOut.threw
    /\ HasProject(projects, UnknownProject)
    /\ contributions # {}

\* C21: when validate passes and handle of the handler fails,
\* EventHandlerService.processEvent fails towards its caller: it neither
\* swallows the failure nor returns a result.
C21_HandlerFailurePropagates ==
    [][(/\ trackerOut'.op = "handlerProcessEvent"
        /\ IsSupported(trackerOut'.event.eventType)
        /\ Validate(trackerOut'.event.eventType, trackerOut'.event)
        /\ ~Handle(trackerOut'.event.eventType,
                   Dom(users, projects, contributions, milestones),
                   trackerOut'.event).ok)
          => /\ trackerOut'.threw
             /\ trackerOut'.validated
             /\ trackerOut'.handled
             /\ ~trackerOut'.ret]_vars

\* the handler of ContributionMade was given an amount that is not a number
\* for a project of the store, and processEvent threw
C21_Witness ==
    /\ trackerOut.op = "handlerProcessEvent"
    /\ trackerOut.event.eventType = CONTRIBUTION_MADE
    /\ trackerOut.event.data.amount = NaS
    /\ HasProject(projects, trackerOut.event.data.projectId)
    /\ trackerOut.handled
    /\ trackerOut.threw

\* C22: a dedup row is written only for an event the registry applied: the
\* dispatch of an event writes at most the row of that event, and only when
\* processEvent of the registry returned true; an event whose handler failed,
\* whose validation failed, whose type has no handler or which could not be
\* decoded leaves the dedup ledger as it was.
C22_MarkOnlyOnSuccess ==
    [][\A s \in Slots :
          (inv[s].pc = "event" /\ inv'[s].dispatched = inv[s].dispatched + 1)
            => LET e == inv[s].events[inv[s].idx] IN
               IF /\ inv'[s].processedCount = inv[s].processedCount + 1
                  /\ inv'[s].errorCount = inv[s].errorCount
               THEN /\ processedEvent \subseteq processedEvent'
                    /\ \A r \in processedEvent' \ processedEvent :
                         r.eventId = e.id /\ r.network = Network
               ELSE processedEvent' = processedEvent]_vars

\* a cycle has dispatched an event that fails validation and one that cannot
\* be decoded, and the network has no dedup row
C22_Witness ==
    /\ \E s \in Slots :
         /\ inv[s].pc = "update"
         /\ Len(inv[s].events) = 2
         /\ inv[s].events[1].topic = <<CONTRIBUTION_MADE>>
         /\ inv[s].events[2].topic = <<"bogus">>
         /\ inv[s].dispatched = 2
         /\ inv[s].processedCount = 0
    /\ \A r \in processedEvent : r.network # Network

\* C23: a chain reorganization is handled by the running indexer: a poll
\* cycle that meets a remote tip behind the cursor rolls the cursor back to
\* or below that tip (through detectReorg and handleReorg) before it returns.
C23_ReorgRolledBack ==
    (/\ lastCycle.outcome # "none"
     /\ lastCycle.end # UndefN
     /\ lastCycle.cursorBefore # UndefN
     /\ lastCycle.end < lastCycle.cursorBefore)
      => CursorOf(ledgerCursor).lastLedgerSeq <= lastCycle.end

\* C24: a fetch cut short at the limit of 5 x the page size leaves the range
\* to be scanned again: the cycle does not move the cursor to or past the
\* ledger whose remaining events were not fetched.
C24_TruncatedRescannable ==
    (lastCycle.fetched /\ lastCycle.truncated)
       => lastCycle.cursorAfter < lastCycle.start

\* C25: every event fetched and dispatched in a cycle belongs to the range of
\* that cycle: its ledger lies in [start, end] = [cursor + 1, remoteLatest],
\* also when the remote chain closes ledgers between the read of the latest
\* ledger and the getEvents calls.
C25_EventsInRange ==
    \A s \in Slots :
        inv[s].fetched =>
            \A k \in 1..Len(inv[s].events) :
                /\ inv[s].start <= inv[s].events[k].ledger
                /\ inv[s].events[k].ledger <= inv[s].latest

\* the progress records a cycle wrote to the log sink
ProgressRecords(logs) == {k \in 1..Len(logs) : logs[k] = "info"}

\* C26: every poll cycle that completes its fetch writes exactly one progress
\* record to the log sink, whether the batch was empty or not.
C26_OneProgressRecord ==
    (lastCycle.fetched /\ lastCycle.outcome \in {"empty", "processed"})
       => Cardinality(ProgressRecords(lastCycle.logs)) = 1

\* C27: a failure of the health check or of the read of the latest ledger
\* during startup is fatal: initializeIndexer fails out of onModuleInit, no
\* cursor is created or changed and startup starts no poll cycle, then or
\* later.
C27_InitFailureFatal ==
    [][/\ (trackerOut.op # "initFailure" /\ trackerOut'.op = "initFailure")
             => /\ initPc = "start"
                /\ initPc' = "failed"
                /\ UNCHANGED <<store, domain, inv, isRunning, lastCycle, lastFetch>>
       /\ initPc = "failed"
             => /\ initPc' = "failed"
                /\ UNCHANGED <<store, domain, inv, isRunning, lastCycle, lastFetch>>
                /\ ActiveSlots = {}
                /\ lastCycle = NoCycle]_vars

\* startup failed on an RPC call; the network has no cursor and nothing runs
C27_Witness ==
    /\ initPc = "failed"
    /\ trackerOut.op = "initFailure"
    /\ CursorOf(ledgerCursor) = NoCursor
    /\ ~isRunning
    /\ ActiveSlots = {}
    /\ lastCycle = NoCycle

\* C28: a poll cycle never passes a failure on to the scheduler, whatever
\* fails inside it (read of the latest ledger, fetch, handler, cursor write or
\* log-sink write); it ends idle with the cursor unchanged or advanced.
C28_CycleNeverRejects ==
    (lastCycle.outcome # "none" /\ lastCycle.caller = "timer") =>
        /\ ~lastCycle.rejected
        /\ lastCycle.cursorAfter >= lastCycle.cursorBefore

\* C29: MilestoneApproved and FundsReleased change only the milestone of the
\* project that the milestoneId of the event names; every other milestone, of
\* that project and of others, is left as it was.
C29_OnlyThatMilestone ==
    [][(/\ trackerOut'.op = "handlerProcessEvent"
        /\ trackerOut'.event.eventType \in {MILESTONE_APPROVED, FUNDS_RELEASED}
        /\ trackerOut'.handled)
          => \A m \in milestones :
                 (~(/\ m.projectId = trackerOut'.event.data.projectId
                    /\ m.milestoneId = trackerOut'.event.data.milestoneId))
                    => m \in milestones']_vars

\* C30: every handler is idempotent: handling an event a second time, right
\* after the first, leaves the domain as the first application left it; no
\* second User, Project or Contribution row appears and the funds of the
\* project are not counted twice.
C30_HandlersIdempotent ==
    [][(/\ trackerOut'.op = "handlerProcessEvent"
        /\ trackerOut'.repeated
        /\ trackerOut.op = "handlerProcessEvent"
        /\ trackerOut.event = trackerOut'.event)
          => /\ UNCHANGED domain
             /\ trackerOut'.handled = trackerOut.handled
             /\ trackerOut'.threw = trackerOut.threw
             /\ trackerOut'.ret = trackerOut.ret]_vars

\* a ContributionMade event for a project of the store was handled twice in a
\* row: one Contribution row, one User row for the contributor, and the funds
\* counted once
C30_Witness ==
    /\ trackerOut.op = "handlerProcessEvent"
    /\ trackerOut.repeated
    /\ trackerOut.event.eventType = CONTRIBUTION_MADE
    /\ trackerOut.handled
    /\ trackerOut.ret
    /\ Cardinality(contributions) = 1
    /\ Cardinality({u \in users : u.walletAddress = trackerOut.event.data.contributor}) = 1
    /\ \E p \in projects :
         /\ p.contractId = trackerOut.event.data.projectId
         /\ p.currentFunds = trackerOut.event.data.totalRaised
    /\ Cardinality(projects) = 1

\* C31: every exit path of pollEvents resets isRunning, no trigger is skipped
\* while no cycle is in flight, and, provided each awaited RPC and store call
\* returns, a Running orchestrator always becomes Idle again.
C31_RunningLeadsToIdle ==
    /\ [][/\ (ActiveSlots # {} /\ ActiveSlots' = {}) => ~isRunning'
          /\ (lastTrigger # "skipped" /\ lastTrigger' = "skipped") => ActiveSlots # {}]_vars
    /\ isRunning ~> ~isRunning

\* the number of events of the first k responses
RECURSIVE Accumulated(_, _)
Accumulated(responses, k) ==
    IF k = 0 THEN 0
    ELSE Accumulated(responses, k - 1)
            + (IF responses[k].hasEvents THEN Len(responses[k].events) ELSE 0)

\* the k-th response carried a continuation token and fewer than
\* 5 x maxEventsPerFetch events were accumulated with it
PageWanted(responses, k) ==
    /\ TruthyS(responses[k].cursor)
    /\ Accumulated(responses, k) < 5 * MaxEventsPerFetch

\* C32: fetchEvents requests the next page exactly while the previous response
\* carried a continuation token and fewer than 5 x maxEventsPerFetch events are
\* accumulated; it returns the pages it fetched concatenated in page order; it
\* ends within 5 x maxEventsPerFetch requests when every page with a token has
\* an event, and it goes on requesting as long as empty pages carry a token.
C32_Pagination ==
    trackerOut.op = "fetchEvents" =>
        LET rs == trackerOut.responses
            r == trackerOut.result
            made == IF r.returned THEN r.requests ELSE r.requests + 1
        IN /\ made >= 1
           /\ r.requests <= Len(rs)
           /\ \A k \in 1..Len(rs) :
                  (k + 1 <= made) <=> (\A j \in 1..k : PageWanted(rs, j))
           /\ Len(r.events) = Accumulated(rs, r.requests)
           /\ \A k \in 1..r.requests :
                  rs[k].hasEvents =>
                     \A j \in 1..Len(rs[k].events) :
                        r.events[Accumulated(rs, k - 1) + j] =
                            TransformRpcEvent(rs[k].events[j])
           /\ (\A k \in 1..Len(rs) :
                  TruthyS(rs[k].cursor) => rs[k].hasEvents /\ Len(rs[k].events) >= 1)
                 => /\ r.requests <= 5 * MaxEventsPerFetch
                    /\ Len(rs) >= 5 * MaxEventsPerFetch => r.returned
           /\ (\A k \in 1..Len(rs) :
                  TruthyS(rs[k].cursor) /\ Accumulated(rs, k) = 0)
                 => ~r.returned /\ r.requests = Len(rs)

\* an empty page with a token was followed by full pages with tokens until the
\* limit stopped the loop, more than 5 x maxEventsPerFetch requests in all
C32_Witness ==
    /\ trackerOut.op = "fetchEvents"
    /\ trackerOut.result.returned
    /\ trackerOut.result.requests > FetchLimit
    /\ Len(trackerOut.result.events) = FetchLimit
    /\ trackerOut.responses[1].hasEvents
    /\ Len(trackerOut.responses[1].events) = 0
    /\ \A k \in 1..trackerOut.result.requests : TruthyS(trackerOut.responses[k].cursor)

\* C33: ProjectCompleted sets the status of an existing project to COMPLETED and
\* ProjectFailed sets it to CANCELLED, neither creates a project; and once a
\* project is COMPLETED or CANCELLED no later event changes its status.
C33_TerminalStatus ==
    [][/\ \A r \in projects :
             r.status \in {"COMPLETED", "CANCELLED"} =>
                 \E q \in projects' : q.contractId = r.contractId /\ q.status = r.status
       /\ (trackerOut'.op = "handlerProcessEvent" /\ trackerOut'.handled
              /\ trackerOut'.event.eventType \in {PROJECT_COMPLETED, PROJECT_FAILED})
             => /\ {q.contractId : q \in projects'} = {r.contractId : r \in projects}
                /\ \A q \in projects' :
                      q.contractId = trackerOut'.event.data.projectId =>
                          q.status = IF trackerOut'.event.eventType = PROJECT_COMPLETED
                                     THEN "COMPLETED" ELSE "CANCELLED"]_vars

(* ====== the cursor written by startup, cycles and handleReorg only ===== *)

\* handleReorg(result) called once while the indexer runs, on the result of
\* the detection before it or on a result the caller holds
RollbackRequested ==
    /\ initPc = "done"
    /\ trackerOut.op \in {"none", "detectReorg"}
    /\ \E res \in ReorgResults
                    \cup (IF trackerOut.op = "detectReorg" THEN {trackerOut.result} ELSE {}) :
         LET r == HandleReorg(ledgerCursor, processedEvent, res) IN
         /\ ledgerCursor' = r.lc
         /\ processedEvent' = r.pe
         /\ trackerOut' = [op |-> "handleReorg", reorgResult |-> res,
                           ok |-> r.ok, ret |-> r.ret]
    /\ UNCHANGED <<domain, isRunning, isShuttingDown, initPc, shutPc,
                   inv, lastTrigger, lastCycle, lastFetch>>

NextOwnCursor == Next \/ ExternalDetectReorg \/ RollbackRequested

\* the store of a first run, or the cursor an earlier run of the indexer left
InitOwnCursor ==
    /\ Init
    /\ GetLastCursor(ledgerCursor) \in
          {NoCursor, [network |-> Network, lastLedgerSeq |-> 2, lastLedgerHash |-> NoHash]}

SpecOwnCursor == InitOwnCursor /\ [][NextOwnCursor]_vars

\* C34: with the cursor written by startup, poll cycles and handleReorg only,
\* the cursor row never holds a ledger hash, and detectReorg reports no reorg
\* for any remote ledger, whatever its sequence and hash.
C34_NoHashNoReorg ==
    /\ GetLastCursor(ledgerCursor).lastLedgerHash = NoHash
    /\ \A currentLedger \in RemoteLedgers :
          ~DetectReorg(ledgerCursor, currentLedger).hasReorg
    /\ trackerOut.op = "detectReorg" => ~trackerOut.result.hasReorg

\* startup created the cursor, a cycle processed a batch and moved it, and a
\* remote ledger below the cursor is reported as no reorg
C34_Witness ==
    /\ lastCycle.outcome = "processed"
    /\ lastCycle.cursorBefore < lastCycle.cursorAfter
    /\ trackerOut.op = "detectReorg"
    /\ trackerOut.currentLedger.sequence < GetLastCursor(ledgerCursor).lastLedgerSeq
    /\ ~trackerOut.result.hasReorg

\* the events of every type with a handler, as getEvents returns them
HandledRpcEvents == RpcEvents(1, {<<t>> : t \in HandlerTypes})

\* C35: the record parseEventData yields has only rawXdr and eventType, so
\* validate of each of the six handlers is false on every event the pipeline
\* decodes; across the poll cycles no handle runs, no domain entity is created
\* or changed and no dedup row is written.
C35_NothingApplied ==
    [][/\ \A e \in HandledRpcEvents :
             LET parsedEvent == ParseEvent(TransformRpcEvent(e)) IN
             /\ parsedEvent # NullEvent
             /\ parsedEvent.data = [NoData EXCEPT !.rawXdr = e.value,
                                                  !.eventType = parsedEvent.eventType]
             /\ IsSupported(parsedEvent.eventType)
             /\ ~Validate(parsedEvent.eventType, parsedEvent)
       /\ \A s \in Slots :
             inv[s].pc = "event" =>
                 LET r == ProcessEvent(processedEvent,
                                       Dom(users, projects, contributions, milestones),
                                       inv[s].events[inv[s].idx])
                 IN ~r.handled /\ ~r.threw /\ ~r.ret
       /\ domain' = domain
       /\ processedEvent' = processedEvent
       /\ \A r \in processedEvent' : r.network # Network]_vars

\* a cycle has dispatched two ContributionMade events; none counted as
\* processed, no contribution exists and the network has no dedup row
C35_Witness ==
    /\ \E s \in Slots :
         /\ inv[s].pc = "update"
         /\ Len(inv[s].events) = 2
         /\ inv[s].events[1].topic = <<CONTRIBUTION_MADE>>
         /\ inv[s].events[2].topic = <<CONTRIBUTION_MADE>>
         /\ inv[s].events[1].ledger < inv[s].events[2].ledger
         /\ inv[s].dispatched = 2
         /\ inv[s].processedCount = 0
         /\ inv[s].errorCount = 0
    /\ contributions = {}
    /\ \A r \in processedEvent : r.network # Network

Thresholds == 0..(ReorgDepthThreshold + 1)

\* C37: handleReorg on a result with hasReorg = true that detectReorg produced
\* against the current cursor writes a safeLedger with 0 <= safeLedger <= the
\* previous lastLedgerSeq of the cursor, for every threshold >= 0.
C37_RollbackNotForward ==
    [][(/\ trackerOut.op = "detectReorg"
        /\ trackerOut.result = DetectReorg(ledgerCursor, trackerOut.currentLedger)
        /\ trackerOut.result.hasReorg
        /\ trackerOut'.op = "handleReorg"
        /\ trackerOut'.reorgResult = trackerOut.result)
          => LET previous == CursorOf(ledgerCursor).lastLedgerSeq IN
             /\ trackerOut'.ret = SafeLedgerSeq(trackerOut.result, ReorgDepthThreshold)
             /\ CursorOf(ledgerCursor').lastLedgerSeq = trackerOut'.ret
             /\ 0 <= trackerOut'.ret
             /\ trackerOut'.ret <= previous
             /\ \A t \in Thresholds :
                   /\ 0 <= SafeLedgerSeq(trackerOut.result, t)
                   /\ SafeLedgerSeq(trackerOut.result, t) <= previous]_vars

\* a reorg detected two ledgers below a cursor at ledger 3 was handled: the
\* cursor went down to ledger 0
C37_Witness ==
    /\ trackerOut.op = "handleReorg"
    /\ trackerOut.detected
    /\ trackerOut.reorgResult.hasReorg
    /\ trackerOut.reorgResult.reorgDepth = 2
    /\ trackerOut.reorgResult.lastValidLedger = 1
    /\ trackerOut.ret = 0
    /\ CursorOf(ledgerCursor).lastLedgerSeq = 0

(* ====== handleReorg in two steps, concurrent with a poll cycle ======== *)

\* handleReorg line 161-186 on the result detectReorg returned: a result
\* without reorg returns at once; otherwise deleteMany has purged the dedup
\* rows above safeLedgerSeq and updateCursor is still to come
RollbackPurge ==
    /\ trackerOut.op = "detectReorg"
    /\ LET res == trackerOut.result
           r == HandleReorg(ledgerCursor, processedEvent, res)
       IN /\ processedEvent' = r.pe
          /\ trackerOut' = IF res.hasReorg
                           THEN [op |-> "handleReorg.purged", reorgResult |-> res,
                                 ok |-> TRUE,
                                 ret |-> SafeLedgerSeq(res, ReorgDepthThreshold)]
                           ELSE [op |-> "handleReorg", reorgResult |-> res,
                                 ok |-> r.ok, ret |-> r.ret]
    /\ UNCHANGED <<ledgerCursor, domain, isRunning, isShuttingDown, initPc, shutPc,
                   inv, lastTrigger, lastCycle, lastFetch>>

\* handleReorg line 187-196: updateCursor(safeLedgerSeq), and the return
RollbackWrite ==
    /\ trackerOut.op = "handleReorg.purged"
    /\ LET upd == UpdateCursor(ledgerCursor, trackerOut.ret, UndefS) IN
       /\ ledgerCursor' = upd.lc
       /\ trackerOut' = [trackerOut EXCEPT !.op = "handleReorg", !.ok = upd.ok]
    /\ UNCHANGED <<processedEvent, domain, isRunning, isShuttingDown, initPc, shutPc,
                   inv, lastTrigger, lastCycle, lastFetch>>

NextRace == Next \/ ExternalDetectReorg \/ RollbackPurge \/ RollbackWrite

\* a cursor that holds the hash a caller of updateCursor(seq, hash) recorded
InitRace ==
    /\ Init
    /\ GetLastCursor(ledgerCursor) =
          [network |-> Network, lastLedgerSeq |-> 2, lastLedgerHash |-> "H1"]

SpecRace == InitRace /\ [][NextRace]_vars

\* C38: handleReorg runs while a cycle is Running, and its purge and its
\* cursor write are two steps; when the cursor was rolled back between the
\* cursor read of a cycle and the final updateCursor of that cycle, that write
\* puts the cursor at end, above safeLedger, and leaves the purge as it is.
C38_RollbackOverwritten ==
    [][\A s \in Slots :
          (/\ inv[s].pc \in {"update", "updateEmpty"}
           /\ inv'[s].pc \notin {"update", "updateEmpty", "catch"}
           /\ CursorOf(ledgerCursor).lastLedgerSeq < inv[s].cursor0)
            => /\ trackerOut.op = "handleReorg"
               /\ trackerOut.reorgResult.hasReorg
               /\ CursorOf(ledgerCursor).lastLedgerSeq = trackerOut.ret
               /\ CursorOf(ledgerCursor').lastLedgerSeq = inv[s].latest
               /\ trackerOut.ret < inv[s].latest
               /\ processedEvent' = processedEvent]_vars

\* the rollback to ledger 0 came after the cursor read of a cycle over [3, 3];
\* the cycle has returned, the cursor is at 3, no dedup row above ledger 0 is
\* left, and the next cycle starts at ledger 4: ledgers 1 and 2 are not fetched
\* again
C38_Witness ==
    /\ trackerOut.op = "handleReorg"
    /\ trackerOut.reorgResult.hasReorg
    /\ trackerOut.ok
    /\ trackerOut.ret = 0
    /\ lastCycle.outcome \in {"empty", "processed"}
    /\ lastCycle.cursorBefore = 2
    /\ lastCycle.start = 3
    /\ lastCycle.cursorAfter = 3
    /\ CursorOf(ledgerCursor).lastLedgerSeq = 3
    /\ \A r \in processedEvent : r.network = Network => r.ledgerSeq <= 0
    /\ \E s \in Slots : inv[s].pc = "latest" /\ inv[s].start = 4

(* ====== pollEvents on a store that has no cursor row ================== *)

\* the started service while the store holds no cursor row of the network:
\* pollEvents invoked without the getStartLedger of startup before it
InitNoCursor ==
    /\ InitStore
    /\ GetLastCursor(ledgerCursor) = NoCursor
    /\ isRunning = FALSE
    /\ isShuttingDown = FALSE
    /\ initPc = "done"
    /\ shutPc = "none"
    /\ inv = [s \in Slots |-> IdleInv]
    /\ lastTrigger = "none"
    /\ lastCycle = NoCycle
    /\ lastFetch = [start |-> UndefN, end |-> UndefN, prevEnd |-> UndefN]
    /\ trackerOut = [op |-> "none"]

NextNoCursor ==
    \/ \E s \in Slots : ScheduledPoll(s)
    \/ \E s \in Slots : ReadCursor(s)
    \/ \E s \in Slots : GetLatest(s)
    \/ \E s \in Slots : FetchAttempt(s)
    \/ \E s \in Slots : ProcessNext(s)
    \/ \E s \in Slots : AdvanceCursor(s)
    \/ \E s \in Slots : CatchError(s)
    \/ OnModuleDestroy
    \/ ShutdownWait

SpecNoCursor == InitNoCursor /\ [][NextNoCursor]_vars

\* C39: pollEvents creates no cursor row: run without one it starts at ledger
\* 1, fetches and dispatches the events from there, fails at its final
\* updateCursor and ends as a failed cycle without progress record; the cursor
\* stays absent and every later cycle starts at ledger 1 again.
C39_NoCursorCreated ==
    /\ GetLastCursor(ledgerCursor) = NoCursor
    /\ \A s \in Slots :
          /\ inv[s].pc \notin {"idle", "cursor"} => inv[s].start = 1 /\ inv[s].cursor0 = UndefN
          /\ inv[s].pc # "progress"
          /\ inv[s].pc = "update" => inv[s].dispatched = Len(inv[s].events)
    /\ lastCycle.outcome # "none" =>
          /\ lastCycle.outcome = "failed"
          /\ lastCycle.start = 1
          /\ lastCycle.cursorAfter = UndefN
          /\ ProgressRecords(lastCycle.logs) = {}
          /\ lastCycle.fetched =>
                /\ lastCycle.dispatched = lastCycle.nEvents
                /\ lastCycle.error = OtherError
                /\ lastFetch.start = 1

\* a cycle without cursor fetched two events from ledger 1 on, dispatched
\* both and failed; the cycle after it starts at ledger 1 again
C39_Witness ==
    /\ GetLastCursor(ledgerCursor) = NoCursor
    /\ lastCycle.outcome = "failed"
    /\ lastCycle.fetched
    /\ lastCycle.start = 1
    /\ lastCycle.nEvents = 2
    /\ lastCycle.dispatched = 2
    /\ \E s \in Slots : inv[s].pc = "latest" /\ inv[s].start = 1

(* ====== decoded events and reorg rollbacks ============================ *)

\* handleReorg(result) on a result that reports a reorg, between dispatches
DecodedRollback ==
    /\ \E res \in {x \in ReorgResults : x.hasReorg} :
         LET r == HandleReorg(ledgerCursor, processedEvent, res) IN
         /\ ledgerCursor' = r.lc
         /\ processedEvent' = r.pe
         /\ trackerOut' = [op |-> "rolledBack", reorgResult |-> res,
                           ok |-> r.ok, ret |-> r.ret,
                           applied |-> {i \in Applied(trackerOut) :
                                           \E row \in r.pe : row.eventId = i}]
    /\ UNCHANGED <<domain, isRunning, isShuttingDown, initPc, shutPc,
                   inv, lastTrigger, lastCycle, lastFetch>>

NextDecodedReorg == DecodedDelivered \/ DecodedRollback

SpecDecodedReorg == InitDecoded /\ [][NextDecodedReorg]_vars

====
